---- MODULE Spec2Model ----
(***************************************************************************)
(* A model of the jadnschema schema toolkit: the compact option codec      *)
(* (schema/options.py), the Definition model and its verification          *)
(* (schema/definitions/base.py), the Schema container with load, schema(), *)
(* simplify, validate_as and the format registry (schema/schema.py).       *)
(*                                                                         *)
(* Text.  A Python str is modelled as a sequence of atoms.  An atom is a   *)
(* chunk of characters that no operation of the program ever splits: a     *)
(* one-character option tag ("[", "*", ...), a digit, a separator ("$",    *)
(* "_", "-", "."), or a word ("Foo", "a").  Concatenation is \o, o[0] is   *)
(* Head, o[1:] is Tail, startswith is a test on Head.                      *)
(***************************************************************************)
EXTENDS Integers, Sequences, FiniteSets, TLC

VARIABLES
    \* ---- option codec runs (SpecOptions)
    optPc, optIn, optBase, optField, optErrs, optTokens, optOut,
    \* ---- Definition.verify runs (SpecVerify)
    defPc, defIn, defErrs,
    \* ---- Schema containers (Spec)
    meta, types, derived, schema_types, status, loads, out,
    \* ---- format registry (SpecFormats)
    formats, fmtCalls,
    \* ---- validation (SpecValidate)
    vPc, vIn, vRes, vCalls, vLoaded

optVars == <<optPc, optIn, optBase, optField, optErrs, optTokens, optOut>>
defVars == <<defPc, defIn, defErrs>>
schVars == <<meta, types, derived, schema_types, status, loads, out>>
fmtVars == <<formats, fmtCalls>>
valVars == <<vPc, vIn, vRes, vCalls, vLoaded>>
vars == <<optVars, defVars, schVars, fmtVars, valVars>>

---------------------------------------------------------------------------
(* Bounds of the model *)

\* largest option integer drawn as an input (minc, maxc, minv, maxv)
MaxCard == 2
\* largest number of options present on one drawn Options value
MaxOpts == 2
\* the number of load calls in a run of the Schema container
MaxLoads == 2
\* the number of validate_as calls in a run of the validation
MaxCalls == 2
\* the number of addFormat calls in a run of the format registry
MaxAdds == 3

---------------------------------------------------------------------------
(* Text helpers *)

S(a) == <<a>>

Digits == <<"0", "1", "2", "3", "4", "5", "6", "7", "8", "9">>
DigitSet == {Digits[i] : i \in 1..10}
DigitVal(c) == (CHOOSE i \in 1..10 : Digits[i] = c) - 1

RECURSIVE NatToStr(_)
\* str(n) for n >= 0
NatToStr(n) == IF n < 10 THEN <<Digits[n + 1]>>
               ELSE NatToStr(n \div 10) \o <<Digits[(n % 10) + 1]>>

\* str(n), the text Python's f"{val}" gives an int
IntToStr(n) == IF n < 0 THEN <<"-">> \o NatToStr(0 - n) ELSE NatToStr(n)

RECURSIVE DigitsToNat(_, _)
DigitsToNat(s, acc) == IF s = <<>> THEN acc
                       ELSE DigitsToNat(Tail(s), acc * 10 + DigitVal(Head(s)))

AllDigits(s) == s # <<>> /\ \A i \in 1..Len(s) : s[i] \in DigitSet

\* int(text) succeeds on an optional sign followed by digits
IsIntText(s) ==
    \/ AllDigits(s)
    \/ s # <<>> /\ Head(s) \in {"-", "+"} /\ AllDigits(Tail(s))

StrToInt(s) == IF Head(s) = "-" THEN 0 - DigitsToNat(Tail(s), 0)
               ELSE IF Head(s) = "+" THEN DigitsToNat(Tail(s), 0)
               ELSE DigitsToNat(s, 0)

SeqToSet(s) == {s[i] : i \in 1..Len(s)}

Last(s) == s[Len(s)]
Front(s) == SubSeq(s, 1, Len(s) - 1)

---------------------------------------------------------------------------
(* Results and errors *)

Ret(v) == [ok |-> TRUE, val |-> v]
Raise(e) == [ok |-> FALSE, err |-> e]
Err(cls, msg) == [cls |-> cls, msg |-> msg]

Max(a, b) == IF a > b THEN a ELSE b

\* a dict with one more key set (d[k] = v)
Put(d, k, v) == [x \in (DOMAIN d) \cup {k} |-> IF x = k THEN v ELSE d[x]]
\* a dict without key k (del d[k])
Del(d, k) == [x \in (DOMAIN d) \ {k} |-> d[x]]
\* the sub-dict of d on keys K
Restrict(d, K) == [x \in (DOMAIN d) \cap K |-> d[x]]
\* getattr(o, k, dflt) / o.get(k, dflt)
OptGet(o, k, dflt) == IF k \in DOMAIN o THEN o[k] ELSE dflt

---------------------------------------------------------------------------
(* Options: schema/options.py *)

\* Options.__slots__, in the order schema() walks them
OptSlots == <<"default", "minc", "maxc", "path", "tfield",
              "enum", "id", "ktype", "vtype", "format", "pattern", "minv",
              "maxv", "unique">>
FieldOptKeys == {"default", "minc", "maxc", "path", "tfield"}
TypeOptKeys == {"enum", "id", "ktype", "vtype", "format", "pattern", "minv",
                "maxv", "unique"}
BoolOpts == {"id", "path", "unique"}
IntOpts == {"minv", "maxv", "minc", "maxc"}

\* Options._ids: tag character -> option
OptIds == [t \in {"!", "<", "[", "]", "&", "#", "=", "+", "*", "/", "{", "}",
                  "%", "q"} |->
             CASE t = "!" -> "default" [] t = "<" -> "path"
               [] t = "[" -> "minc"    [] t = "]" -> "maxc"
               [] t = "&" -> "tfield"  [] t = "#" -> "enum"
               [] t = "=" -> "id"      [] t = "+" -> "ktype"
               [] t = "*" -> "vtype"   [] t = "/" -> "format"
               [] t = "{" -> "minv"    [] t = "}" -> "maxv"
               [] t = "%" -> "pattern" [] t = "q" -> "unique"]
TagOf(opt) == CHOOSE t \in DOMAIN OptIds : OptIds[t] = opt
\* Options.enum_id
EnumId == TagOf("enum")

\* the regex of Options.__setattr__: ^[eE]num\((?P<type>[^)]*)\)$
EnumCall(val) ==
    /\ Len(val) >= 2
    /\ Head(val) \in {"Enum(", "enum("}
    /\ Last(val) = ")"
    /\ \A i \in 2..(Len(val) - 1) : val[i] # ")"

\* Options.__setattr__: the value stored for key
OptSetAttr(key, val) ==
    IF key \in {"ktype", "vtype"}
    THEN IF val # <<>> /\ EnumCall(val)
         THEN <<"$">> \o SubSeq(val, 2, Len(val) - 1)
         ELSE val
    ELSE val

\* Options(data) for a dict: every item goes through __setattr__
OptionsFromDict(d) == [k \in DOMAIN d |-> OptSetAttr(k, d[k])]

RECURSIVE DecodeTokens(_, _)
\* the loop of Options.__init__ over a token list; tmp is the dict built so far
DecodeTokens(toks, tmp) ==
    IF toks = <<>> THEN Ret(tmp)
    ELSE LET o == Head(toks) IN
         IF o = <<>>
         THEN Raise(Err("IndexError", "string index out of range"))
         ELSE IF Head(o) \notin DOMAIN OptIds
         THEN DecodeTokens(Tail(toks), tmp)
         ELSE LET opt == OptIds[Head(o)]
                  text == Tail(o)
              IN  IF opt \in IntOpts
                  THEN IF IsIntText(text)
                       THEN DecodeTokens(Tail(toks), Put(tmp, opt, StrToInt(text)))
                       ELSE Raise(Err("TypeError", "type of option must be int"))
                  ELSE IF opt \in BoolOpts
                  THEN DecodeTokens(Tail(toks), Put(tmp, opt, TRUE))
                  ELSE DecodeTokens(Tail(toks), Put(tmp, opt, text))

\* Options(data) for a list of tokens
OptionsFromTokens(toks) ==
    LET r == DecodeTokens(toks, <<>>)
    IN  IF r.ok THEN Ret(OptionsFromDict(r.val)) ELSE r

\* Options._validOptions.get(basetype, ())
ValidOptions(basetype) ==
    CASE basetype = S("Binary") -> {"format", "minv", "maxv"}
      [] basetype = S("Boolean") -> {}
      [] basetype = S("Integer") -> {"format", "minv", "maxv"}
      [] basetype = S("Number") -> {"format", "minv", "maxv"}
      [] basetype = S("Null") -> {}
      [] basetype = S("String") -> {"format", "minv", "maxv", "pattern"}
      [] basetype = S("Array") -> {"format", "minv", "maxv"}
      [] basetype = S("ArrayOf") -> {"minv", "maxv", "vtype", "unique"}
      [] basetype = S("Choice") -> {"id", "path"}
      [] basetype = S("Enumerated") -> {"id", "enum", "path"}
      [] basetype = S("Map") -> {"id", "minv", "maxv", "path"}
      [] basetype = S("MapOf") -> {"ktype", "minv", "maxv", "vtype"}
      [] basetype = S("Record") -> {"minv", "maxv", "path"}
      [] OTHER -> {}

\* Options._validFormats: the literal keywords
ValidFormatWords ==
    {"date-time", "date", "time", "email", "idn-email", "hostname",
     "idn-hostname", "ipv4", "ipv6", "uri", "uri-reference", "iri",
     "iri-reference", "uri-template", "json-pointer",
     "relative-json-pointer", "regex", "eui", "ipv4-addr", "ipv6-addr",
     "ipv4-net", "ipv6-net", "i8", "i16", "i32", "x"}

\* any(re.match(^vf$, fmt) for vf in _validFormats); u\d+ is the one pattern
ValidFormat(fmt) ==
    \/ Len(fmt) = 1 /\ fmt[1] \in ValidFormatWords
    \/ Head(fmt) = "u" /\ AllDigits(Tail(fmt))

CardinalityErrorNoZero(minimum, maximum) == maximum < minimum
\* the test of Options.verify: maximum and maximum != 0 and maximum < minimum
CardinalityError(minimum, maximum) ==
    maximum # 0 /\ maximum # 0 /\ maximum < minimum

\* Options.verify: the list of errors it collects
VerifyErrors(o, basetype, field) ==
    LET valid == ValidOptions(basetype) \cup (IF field THEN FieldOptKeys ELSE {})
        keys == (DOMAIN o) \ valid
        e1 == IF keys # {}
              THEN <<Err("OptionError", "Extra options given")>>
              ELSE IF basetype = S("ArrayOf")
              THEN IF {"vtype"} \ (DOMAIN o) # {}
                   THEN <<Err("OptionError", "requires options: vtype")>>
                   ELSE <<>>
              ELSE IF basetype = S("MapOf")
              THEN IF {"vtype", "ktype"} \ (DOMAIN o) # {}
                   THEN <<Err("OptionError", "requires options: vtype and ktype")>>
                   ELSE <<>>
              ELSE <<>>
        lo == IF field THEN "minc" ELSE "minv"
        hi == IF field THEN "maxc" ELSE "maxv"
        minimum == OptGet(o, lo, 1)
        maximum == OptGet(o, hi, Max(1, minimum))
        e2 == IF CardinalityError(minimum, maximum)
              THEN <<Err("OptionError", "max cannot be less than min")>>
              ELSE <<>>
        e3 == IF "format" \in DOMAIN o
              THEN IF o["format"] # <<>> /\ ~ValidFormat(o["format"])
                   THEN <<Err("OptionError", "specified unknown format")>>
                   ELSE <<>>
              ELSE <<>>
    IN  e1 \o e2 \o e3

\* Options.verify(basetype, defname, field, silent)
OptionsVerify(o, basetype, field, silent) ==
    LET errors == VerifyErrors(o, basetype, field)
    IN  IF Len(errors) > 0
        THEN IF silent THEN Ret(errors) ELSE Raise(errors[1])
        ELSE Ret(<<>>)

\* val.replace("_Enum-", enum_id)
ReplaceLegacyEnum(val) ==
    [i \in 1..Len(val) |-> IF val[i] = "_Enum-" THEN EnumId ELSE val[i]]

\* one token of Options.schema: tag, then the text of the value
OptToken(opt, val) ==
    IF opt \in BoolOpts THEN <<TagOf(opt)>>
    ELSE IF opt \in IntOpts THEN <<TagOf(opt)>> \o IntToStr(val)
    ELSE IF opt = "vtype"
    THEN IF val # <<>> /\ Head(val) \in {"_Enum-", "_Enum"}
         THEN <<TagOf(opt)>> \o ReplaceLegacyEnum(val)
         ELSE <<TagOf(opt)>> \o val
    ELSE <<TagOf(opt)>> \o val

\* Options.schema(basetype, defname, field): verify, then the token list
OptionsSchema(o, basetype, field) ==
    LET v == OptionsVerify(o, basetype, field, FALSE)
        present == SelectSeq(OptSlots, LAMBDA k : k \in DOMAIN o)
    IN  IF ~v.ok THEN v
        ELSE Ret([i \in 1..Len(present) |-> OptToken(present[i], o[present[i]])])

\* Options.split(): (field_opts, type_opts)
OptSplit(o) == [field |-> OptionsFromDict(Restrict(o, FieldOptKeys)),
                type |-> OptionsFromDict(Restrict(o, TypeOptKeys))]

---------------------------------------------------------------------------
(* Builtin type tables: schema/base.py, BaseModel._jadn_types *)

SimpleTypes == {S("Binary"), S("Boolean"), S("Integer"), S("Number"),
                S("Null"), S("String")}
SelectorTypes == {S("Choice"), S("Enumerated")}
CompoundTypes == {S("Array"), S("ArrayOf"), S("Map"), S("MapOf"), S("Record")}
\* the initial value of the class attribute BaseModel._schema_types
JadnTypeNames == SimpleTypes \cup SelectorTypes \cup CompoundTypes

---------------------------------------------------------------------------
(* Definitions: schema/definitions/base.py *)

\* DefinitionBase.basetype: self.type.rsplit(".")[0]
Basetype(t) ==
    LET dots == {i \in 1..Len(t) : t[i] = "."}
    IN  IF dots = {} THEN t
        ELSE SubSeq(t, 1, (CHOOSE i \in dots : \A j \in dots : i <= j) - 1)

IsPrimitive(vtype) == vtype \in SimpleTypes
IsStructure(vtype) == vtype \in (CompoundTypes \cup SelectorTypes)
IsBuiltin(vtype) == IsPrimitive(vtype) \/ IsStructure(vtype)
\* DefinitionBase.is_compound
IsCompound(vtype) ==
    vtype \in {S("Array"), S("Choice"), S("Enumerated"), S("Map"), S("Record")}

HasFields(d) == "fields" \in DOMAIN d

NoOrdinalCheck(d) == FALSE
\* DefinitionBase.verify line 154: the types whose field ids must equal their
\* 1-based position
IsOrdinal(d) == Basetype(d.type) \in {S("Array"), S("Record")}

\* DefinitionBase.verify line 153: the field checks are skipped for Enumerated
FieldChecksApply(d) == Basetype(d.type) # S("Enumerated")

\* the errors one pass of the loop of DefinitionBase.verify collects, for the
\* field at 0-based position i - 1
FieldErrors(d, i, known) ==
    LET field == d.fields[i]
        pos == IF IsOrdinal(d) /\ field.id # i
               THEN <<[cls |-> "FormatError", msg |-> "Item ID", at |-> i]>>
               ELSE <<>>
        typ == IF field.type \notin known
               THEN <<[cls |-> "TypeError", msg |-> "Type of field not defined",
                       at |-> i]>>
               ELSE <<>>
    IN  pos \o typ \o VerifyErrors(field.options, field.type, TRUE)

RECURSIVE AllFieldErrors(_, _, _)
AllFieldErrors(d, i, known) ==
    IF i > Len(d.fields) THEN <<>>
    ELSE FieldErrors(d, i, known) \o AllFieldErrors(d, i + 1, known)

\* len(self.fields) != len(tags)
TagMismatch(d) ==
    Len(d.fields) # Cardinality({d.fields[i].id : i \in 1..Len(d.fields)})
\* len(self.fields) != len(names)
NameMismatch(d) ==
    Len(d.fields) # Cardinality({d.fields[i].name : i \in 1..Len(d.fields)})

\* the errors of DefinitionBase.verify that come after the definition's own
\* option errors
DefFieldErrors(d, known) ==
    IF ~HasFields(d) THEN <<>>
    ELSE IF Basetype(d.type) \in {S("Array"), S("Choice"), S("Enumerated"),
                                   S("Map"), S("Record")}
    THEN IF FieldChecksApply(d)
         THEN AllFieldErrors(d, 1, known)
              \o (IF TagMismatch(d)
                  THEN <<Err("DuplicateError", "Tag count mismatch")>>
                  ELSE <<>>)
              \o (IF NameMismatch(d) /\ Basetype(d.type) # S("Array")
                  THEN <<Err("DuplicateError", "Name/Value count mismatch")>>
                  ELSE <<>>)
         ELSE <<>>
    ELSE <<Err("FormatError", "should have defined fields")>>

\* DefinitionBase.verify(schema_types, silent=True): every error, in order
DefVerifyErrors(d, known) ==
    VerifyErrors(d.options, Basetype(d.type), FALSE) \o DefFieldErrors(d, known)

\* DefinitionBase.verify(schema_types, silent): with silent=False the option
\* verifications raise on the spot, before the collected errors are looked at
DefVerify(d, known, silent) ==
    LET own == VerifyErrors(d.options, Basetype(d.type), FALSE)
        checked == HasFields(d) /\ IsCompound(Basetype(d.type)) /\ FieldChecksApply(d)
        bad == IF checked
               THEN {i \in 1..Len(d.fields) :
                        VerifyErrors(d.fields[i].options, d.fields[i].type, TRUE) # <<>>}
               ELSE {}
        first == CHOOSE i \in bad : \A j \in bad : i <= j
        all == DefVerifyErrors(d, known)
    IN  IF silent THEN Ret(all)
        ELSE IF own # <<>> THEN Raise(own[1])
        ELSE IF bad # {}
        THEN Raise(VerifyErrors(d.fields[first].options, d.fields[first].type, TRUE)[1])
        ELSE IF all # <<>> THEN Raise(all[1])
        ELSE Ret(<<>>)

---------------------------------------------------------------------------
(* Names.  The atoms of the model fall in four classes; a word is a run of  *)
(* letters and digits, and every word that is not listed as lower-case      *)
(* starts with a capital letter.                                            *)

LowerWords == {"a", "b", "x", "y", "k", "v", "kind", "port", "red", "green"}
SymbolAtoms == {"$", "-", "_", ".", ":", "(", ")", "Enum(", "enum(", "_Enum-",
                "_Enum", "^a$", "!", "<", "[", "]", "&", "#", "=", "+", "*",
                "/", "{", "}", "%", "?"}
IsLowerWord(a) == a \in LowerWords
IsDigit(a) == a \in DigitSet
IsUpperWord(a) == a \notin LowerWords /\ a \notin DigitSet /\ a \notin SymbolAtoms

\* Config._defaults["TypeName"]: ^[A-Z][-$A-Za-z0-9]{0,31}$ (the names of the
\* model are shorter than 32 characters)
TypeNameOK(name) ==
    /\ name # <<>>
    /\ IsUpperWord(name[1])
    /\ \A i \in 2..Len(name) :
          IsUpperWord(name[i]) \/ IsLowerWord(name[i]) \/ IsDigit(name[i])
              \/ name[i] \in {"-", "$"}

\* the regex of Field.check_name: ^[a-z][_A-Za-z0-9]{0,31}$
FieldNameOK(name) ==
    /\ name # <<>>
    /\ IsLowerWord(name[1])
    /\ \A i \in 2..Len(name) :
          IsUpperWord(name[i]) \/ IsLowerWord(name[i]) \/ IsDigit(name[i])
              \/ name[i] = "_"

\* s.replace("_", "-")
ReplaceUnderscore(s) == [i \in 1..Len(s) |-> IF s[i] = "_" THEN "-" ELSE s[i]]

\* the least element of a non-empty set of integers
Least(X) == CHOOSE i \in X : \A j \in X : i <= j

\* a sequence of results: the values when all are ok, else the first failure
SeqResult(rs) ==
    LET bad == {i \in DOMAIN rs : ~rs[i].ok}
    IN  IF bad = {} THEN Ret([i \in DOMAIN rs |-> rs[i].val]) ELSE rs[Least(bad)]

---------------------------------------------------------------------------
(* Config and Meta: schema/schema.py *)

ConfigSlots == {"MaxBinary", "MaxString", "MaxElements", "FS", "Sys",
                "TypeName", "FieldName", "NSID"}
\* Config._defaults; the three regexes are kept as named patterns
ConfigDefaults ==
    [MaxBinary |-> 255, MaxString |-> 255, MaxElements |-> 100,
     FS |-> S("/"), Sys |-> S("$"), TypeName |-> S("TypeNameRegex"),
     FieldName |-> S("FieldNameRegex"), NSID |-> S("NSIDRegex")]

\* re.sub(r"^\$", "", k) on a key of the config dict, as a slot name
ConfigKey(k) == IF Head(k) = "$" THEN Tail(k) ELSE k

\* Config.check_<key>
ConfigValueOK(key, v) ==
    CASE key \in {"MaxBinary", "MaxString", "MaxElements"} -> v >= 1
      [] key \in {"FS", "Sys"} -> Len(v) = 1
      [] OTHER -> Len(v) >= 1

\* Config(data): values holds the overridden values and the defaults,
\* overrides is Config._overrides
MakeConfig(data) ==
    LET keys == {ConfigKey(k) : k \in DOMAIN data}
        given == [n \in {k[1] : k \in {x \in keys : Len(x) = 1}} |->
                    data[CHOOSE k \in DOMAIN data : ConfigKey(k) = S(n)]]
    IN  IF \E k \in keys : Len(k) # 1 \/ k[1] \notin ConfigSlots
        THEN Raise(Err("KeyError", "Config has extra keys"))
        ELSE IF \E n \in DOMAIN given : ~ConfigValueOK(n, given[n])
        THEN Raise(Err("ValueError", "Config value invalid"))
        ELSE Ret([values |-> [n \in ConfigSlots |->
                                 IF n \in DOMAIN given THEN given[n]
                                 ELSE ConfigDefaults[n]],
                  overrides |-> DOMAIN given])

\* Config.schema()
ConfigSchema(c) == [k \in {<<"$", n>> : n \in c.overrides} |-> c.values[k[2]]]

MetaSlots == {"module", "patch", "title", "description", "imports", "exports",
              "config"}

\* Meta(data): data holds the slots given other than config, hasConfig is
\* Meta._config, config the Config object
MakeMeta(data) ==
    LET hasConfig == "config" \in DOMAIN data
        c == IF hasConfig THEN MakeConfig(data["config"]) ELSE MakeConfig(<<>>)
    IN  IF ~c.ok THEN c
        ELSE IF (DOMAIN data) \ MetaSlots # {}
        THEN Raise(Err("KeyError", "Meta has extra keys"))
        ELSE Ret([data |-> Restrict(data, MetaSlots \ {"config"}),
                  hasConfig |-> hasConfig,
                  config |-> c.val])

\* Meta.schema()
MetaSchema(m) ==
    IF m.hasConfig THEN Put(m.data, "config", ConfigSchema(m.config)) ELSE m.data

\* the state of a Schema object before any load: Meta()
EmptyMeta == MakeMeta(<<>>).val

---------------------------------------------------------------------------
(* Construction of Fields and Definitions: schema/fields.py, schema/base.py, *)
(* schema/definitions/__init__.py, schema/definitions/base.py.  A raw type   *)
(* [name, type, options, description, fields?] is a record with or without   *)
(* the key fields; a raw field is [id, name, type, options, description],    *)
(* or [id, value, description] inside an Enumerated.                         *)

\* Field(raw, _config=...)
MakeField(raw) ==
    LET o == OptionsFromTokens(raw.options)
    IN  IF ~o.ok THEN o
        ELSE IF ~FieldNameOK(raw.name) THEN Raise(Err("ValueError", "Name invalid"))
        ELSE Ret([id |-> raw.id, name |-> raw.name, type |-> raw.type,
                  options |-> o.val, description |-> raw.description])

\* EnumeratedField(raw, _config=...)
MakeEnumField(raw) ==
    Ret([id |-> raw.id, value |-> raw.value, description |-> raw.description])

\* the class make_definition picks
DefClass(type) ==
    IF type \in {S("Array"), S("ArrayOf"), S("Choice"), S("Enumerated"), S("Map"),
                 S("MapOf"), S("Record")}
    THEN type ELSE S("Custom")

\* make_definition(raw, _config=schema)
MakeDefinition(raw) ==
    LET o == OptionsFromTokens(raw.options)
        hasFields == "fields" \in DOMAIN raw
        fs == IF hasFields
              THEN SeqResult([i \in 1..Len(raw.fields) |->
                                IF raw.type = S("Enumerated")
                                THEN MakeEnumField(raw.fields[i])
                                ELSE MakeField(raw.fields[i])])
              ELSE Ret(<<>>)
        base == [name |-> raw.name, type |-> raw.type,
                 options |-> IF o.ok THEN o.val ELSE <<>>,
                 description |-> raw.description]
    IN  IF ~fs.ok THEN fs
        ELSE IF ~o.ok THEN o
        ELSE IF hasFields /\ DefClass(raw.type) \in {S("ArrayOf"), S("MapOf")}
        THEN Raise(Err("KeyError", "has extra keys - fields"))
        ELSE IF ~TypeNameOK(raw.name) THEN Raise(Err("ValueError", "Name invalid"))
        ELSE IF raw.name \in JadnTypeNames
        THEN Raise(Err("FormatError", "cannot be the name of a JADN type"))
        ELSE IF IsCompound(Basetype(raw.type)) /\ ~hasFields
        THEN Raise(Err("FormatError", "must have defined fields"))
        ELSE IF ~IsCompound(Basetype(raw.type)) /\ hasFields
        THEN Raise(Err("FormatError", "improperly formatted"))
        ELSE IF hasFields THEN Ret(Put(base, "fields", fs.val))
        ELSE Ret(base)

---------------------------------------------------------------------------
(* Schema._convert_types: the list form of the types to the dict form and   *)
(* back.  Both forms are records here; the forms differ in the options,     *)
(* token lists in the list form and Options objects in the dict form.       *)

\* one field, list form to dict form: Options(tokens) when the field has options
FieldToDict(f) ==
    IF "options" \in DOMAIN f
    THEN LET o == OptionsFromTokens(f.options)
         IN  IF o.ok THEN Ret([f EXCEPT !.options = o.val]) ELSE o
    ELSE Ret(f)

\* one type, list form to dict form
TypeToDict(t) ==
    LET o == OptionsFromTokens(t.options)
        fs == IF HasFields(t)
              THEN SeqResult([i \in 1..Len(t.fields) |-> FieldToDict(t.fields[i])])
              ELSE Ret(<<>>)
    IN  IF ~o.ok THEN o
        ELSE IF ~fs.ok THEN fs
        ELSE IF HasFields(t) THEN Ret([t EXCEPT !.options = o.val, !.fields = fs.val])
        ELSE Ret([t EXCEPT !.options = o.val])

\* one field, dict form to list form: field["options"].schema(field["type"],
\* field["name"], True)
FieldToList(f) ==
    IF "options" \in DOMAIN f
    THEN LET o == OptionsSchema(f.options, f.type, TRUE)
         IN  IF o.ok THEN Ret([f EXCEPT !.options = o.val]) ELSE o
    ELSE Ret(f)

\* one type, dict form to list form
TypeToList(t) ==
    LET o == OptionsSchema(t.options, t.type, FALSE)
        fs == IF HasFields(t)
              THEN SeqResult([i \in 1..Len(t.fields) |-> FieldToList(t.fields[i])])
              ELSE Ret(<<>>)
    IN  IF ~o.ok THEN o
        ELSE IF ~fs.ok THEN fs
        ELSE IF HasFields(t) THEN Ret([t EXCEPT !.options = o.val, !.fields = fs.val])
        ELSE Ret([t EXCEPT !.options = o.val])

ConvertToDict(ts) == SeqResult([i \in 1..Len(ts) |-> TypeToDict(ts[i])])
ConvertToList(ts) == SeqResult([i \in 1..Len(ts) |-> TypeToList(ts[i])])

---------------------------------------------------------------------------
(* Schema.simplify and its four passes, on the dict form of the types *)

NamesOf(ts) == {ts[i].name : i \in 1..Len(ts)}
WithName(ts, n) == {i \in 1..Len(ts) : ts[i].name = n}
SetField(ts, ti, fi, f) ==
    [ts EXCEPT ![ti] = [@ EXCEPT !.fields = [@ EXCEPT ![fi] = f]]]

\* remove_anonymous_type: the outer loop runs over a copy of the list, so the
\* n types present at the start
RECURSIVE AnonFrom(_, _, _, _, _)
AnonFrom(ts, n, ti, fi, Sys) ==
    IF ti > n THEN ts
    ELSE IF ~HasFields(ts[ti]) \/ fi > Len(ts[ti].fields)
    THEN AnonFrom(ts, n, ti + 1, 1, Sys)
    ELSE LET f == ts[ti].fields[fi]
         IN  IF "options" \notin DOMAIN f THEN AnonFrom(ts, n, ti, fi + 1, Sys)
             ELSE LET sp == OptSplit(f.options)
                      new_name == ReplaceUnderscore(f.type \o Sys \o f.name)
                      new_type == [name |-> new_name, type |-> f.type,
                                   options |-> sp.type,
                                   description |-> f.description]
                  IN  IF DOMAIN sp.type = {}
                      THEN AnonFrom(ts, n, ti, fi + 1, Sys)
                      ELSE AnonFrom(
                             SetField(Append(ts, new_type), ti, fi,
                                      [f EXCEPT !.type = new_name,
                                                !.options = sp.field]),
                             n, ti, fi + 1, Sys)

remove_anonymous_type(ts, Sys) == Ret(AnonFrom(ts, Len(ts), 1, 1, Sys))

\* str.split("_")
RECURSIVE SplitUnderscore(_, _, _)
SplitUnderscore(s, cur, acc) ==
    IF s = <<>> THEN Append(acc, cur)
    ELSE IF Head(s) = "_" THEN SplitUnderscore(Tail(s), <<>>, Append(acc, cur))
    ELSE SplitUnderscore(Tail(s), Append(cur, Head(s)), acc)

\* the capital form of the lower-case words of the model
UpperOf == [a |-> "A", b |-> "B", x |-> "X", y |-> "Y", k |-> "K", v |-> "V",
            kind |-> "Kind", port |-> "Port", red |-> "Red", green |-> "Green"]
\* str.capitalize on a part of a field name: the first letter in upper case,
\* the rest in lower case
Capitalize(part) ==
    [i \in 1..Len(part) |->
        IF i = 1
        THEN IF part[i] \in DOMAIN UpperOf THEN UpperOf[part[i]] ELSE part[i]
        ELSE IF \E w \in DOMAIN UpperOf : UpperOf[w] = part[i]
             THEN CHOOSE w \in DOMAIN UpperOf : UpperOf[w] = part[i]
             ELSE part[i]]

\* inflect: get_count(word) is 1 on the words that stand for one
CountOneWords == {S("1"), S("a"), S("an"), S("one"), S("each"), S("every"),
                  S("this"), S("that")}
\* inflect: plural(word), for the words that stand for one
Plural(word) ==
    IF word \in {S("a"), S("an")} THEN S("some")
    ELSE IF word = S("this") THEN S("these")
    ELSE IF word = S("that") THEN S("those")
    ELSE IF word \in {S("each"), S("every")} THEN S("all")
    ELSE word \o S("s")

RECURSIVE JoinDash(_)
JoinDash(parts) ==
    IF Len(parts) = 1 THEN parts[1]
    ELSE parts[1] \o S("-") \o JoinDash(Tail(parts))

\* the name remove_multiplicity gives the ArrayOf it lifts a field to
MultiName(name) ==
    LET parts == SplitUnderscore(name, <<>>, <<>>)
        n == Len(parts)
        parts2 == [parts EXCEPT ![n] = IF @ \in CountOneWords THEN Plural(@) ELSE @]
    IN  JoinDash([i \in 1..n |-> Capitalize(parts2[i])])

\* remove_multiplicity: the loops run over the live list, so over the types
\* the pass appends as well
RECURSIVE MultiFrom(_, _, _)
MultiFrom(ts, ti, fi) ==
    IF ti > Len(ts) THEN Ret(ts)
    ELSE IF ~HasFields(ts[ti]) \/ fi > Len(ts[ti].fields)
    THEN MultiFrom(ts, ti + 1, 1)
    ELSE LET f == ts[ti].fields[fi]
         IN  IF "options" \notin DOMAIN f THEN MultiFrom(ts, ti, fi + 1)
             ELSE LET sp == OptSplit(f.options)
                      minc == OptGet(sp.field, "minc", 0)
                      hasMax == "maxc" \in DOMAIN sp.field
                      field_opts == Del(sp.field, "maxc")
                      o1 == Put(sp.type, "vtype", OptSetAttr("vtype", f.type))
                      o2 == Put(o1, "minv", Max(minc, 1))
                      type_opts == IF hasMax /\ sp.field["maxc"] > 1
                                   THEN Put(o2, "maxv", sp.field["maxc"]) ELSE o2
                      new_name == MultiName(f.name)
                      new_type == [name |-> new_name, type |-> S("ArrayOf"),
                                   options |-> type_opts,
                                   description |-> f.description]
                      ts1 == IF new_name \in NamesOf(ts) THEN ts
                             ELSE Append(ts, new_type)
                  IN  IF (hasMax /\ sp.field["maxc"] # 1) \/ minc > 1
                      THEN IF ~hasMax
                           THEN Raise(Err("AttributeError", "maxc"))
                           ELSE MultiFrom(
                                  SetField(ts1, ti, fi,
                                           [f EXCEPT !.type = new_name,
                                                     !.options = field_opts]),
                                  ti, fi + 1)
                      ELSE MultiFrom(ts, ti, fi + 1)

remove_multiplicity(ts) == MultiFrom(ts, 1, 1)

\* the options remove_derived_enum looks at, in the order of opt_checks
DerivedOpts == <<"enum", "ktype", "vtype">>

\* opt and opt_check(opt)
DerivedApplies(opt_name, opt) ==
    opt # <<>> /\ (opt_name = "enum" \/ Head(opt) = "$")

\* remove_derived_enum: the loop runs over the live list; oi is the position
\* in DerivedOpts
RECURSIVE DerivedFrom(_, _, _, _)
DerivedFrom(ts, ti, oi, Sys) ==
    IF ti > Len(ts) THEN Ret(ts)
    ELSE IF ts[ti].type \notin {S("ArrayOf"), S("Enumerated"), S("MapOf")}
            \/ oi > Len(DerivedOpts)
    THEN DerivedFrom(ts, ti + 1, 1, Sys)
    ELSE LET opt_name == DerivedOpts[oi]
             given == OptGet(ts[ti].options, opt_name, <<>>)
             opt == IF given # <<>> /\ Head(given) = "$" THEN Tail(given) ELSE given
             orig == WithName(ts, opt)
             orig_type == ts[CHOOSE i \in orig : TRUE]
             orig_fields == IF HasFields(orig_type) THEN orig_type.fields ELSE <<>>
             new_name == ReplaceUnderscore(opt \o Sys \o S("Enum"))
             new_type == [name |-> new_name, type |-> S("Enumerated"),
                          options |-> <<>>,
                          description |-> S("Derived enumeration of") \o opt,
                          fields |-> [i \in 1..Len(orig_fields) |->
                                        [id |-> orig_fields[i].id,
                                         value |-> orig_fields[i].name,
                                         description |-> orig_fields[i].description]]]
             exists == new_name \in NamesOf(ts)
             ts1 == IF exists THEN ts ELSE Append(ts, new_type)
         IN  IF ~DerivedApplies(opt_name, given) THEN DerivedFrom(ts, ti, oi + 1, Sys)
             ELSE IF Cardinality(orig) # 1
             THEN Raise(Err("TypeError", "does not exist within the schema"))
             ELSE IF ~exists /\ \E i \in 1..Len(orig_fields) :
                                   "name" \notin DOMAIN orig_fields[i]
             THEN Raise(Err("KeyError", "name"))
             ELSE DerivedFrom(
                    [ts1 EXCEPT ![ti] =
                        [@ EXCEPT !.options =
                            Put(@, opt_name, OptSetAttr(opt_name, new_name))]],
                    ti, oi + 1, Sys)

remove_derived_enum(ts, Sys) == DerivedFrom(ts, 1, 1, Sys)

\* remove_map_of_enum
RECURSIVE MapOfFrom(_, _)
MapOfFrom(ts, idx) ==
    IF idx > Len(ts) THEN Ret(ts)
    ELSE IF ts[idx].type # S("MapOf") THEN MapOfFrom(ts, idx + 1)
    ELSE LET o == ts[idx].options
             keys == WithName(ts, o["ktype"])
             key_type == ts[CHOOSE i \in keys : TRUE]
             key_fields == IF HasFields(key_type) THEN key_type.fields ELSE <<>>
             map_type == [name |-> ts[idx].name, type |-> S("Map"),
                          options |-> Del(Del(o, "ktype"), "vtype"),
                          description |-> ts[idx].description,
                          fields |-> [i \in 1..Len(key_fields) |->
                                        [id |-> key_fields[i].id,
                                         name |-> key_fields[i].value,
                                         type |-> o["vtype"],
                                         options |-> <<>>,
                                         description |-> key_fields[i].description]]]
         IN  IF "ktype" \notin DOMAIN o THEN Raise(Err("AttributeError", "ktype"))
             ELSE IF "vtype" \notin DOMAIN o THEN Raise(Err("AttributeError", "vtype"))
             ELSE IF Cardinality(keys) # 1
             THEN Raise(Err("TypeError", "does not exist within the schema"))
             ELSE IF key_type.type = S("Enumerated")
             THEN MapOfFrom([ts EXCEPT ![idx] = map_type], idx + 1)
             ELSE MapOfFrom(ts, idx + 1)

remove_map_of_enum(ts) == MapOfFrom(ts, 1)

\* r when r is a failure, else what F makes of its value
Then(r, F(_)) == IF r.ok THEN F(r.val) ELSE r

\* Schema.simplify(schema, anon, multi, derived, map_of) with simple=True, on
\* the types of the schema given; Sys is self.meta.config.Sys
Simplify(ts, anon, multi, deriv, map_of, Sys) ==
    Then(Then(Then(Then(Then(ConvertToDict(ts),
        LAMBDA d : IF anon THEN remove_anonymous_type(d, Sys) ELSE Ret(d)),
        LAMBDA d : IF multi THEN remove_multiplicity(d) ELSE Ret(d)),
        LAMBDA d : IF deriv THEN remove_derived_enum(d, Sys) ELSE Ret(d)),
        LAMBDA d : IF map_of THEN remove_map_of_enum(d) ELSE Ret(d)),
        LAMBDA d : ConvertToList(d))

---------------------------------------------------------------------------
(* Schema._setSchema and what it calls.  The types of a Schema object, a    *)
(* dict keyed by name, are the sequence of its definitions in the order of  *)
(* the dict.                                                                *)

RECURSIVE SortedSeq(_)
SortedSeq(X) == IF X = {} THEN <<>> ELSE <<Least(X)>> \o SortedSeq(X \ {Least(X)})

\* {t[0]: make_definition(t) for t in types}: a name given twice keeps the
\* place of its first definition and the value of its last
TypesDict(defs) ==
    LET firsts == SortedSeq({i \in 1..Len(defs) :
                               \A j \in 1..(i - 1) : defs[j].name # defs[i].name})
        LastOf(n) == CHOOSE i \in WithName(defs, n) :
                        \A j \in WithName(defs, n) : j <= i
    IN  [k \in 1..Len(firsts) |-> defs[LastOf(defs[firsts[k]].name)]]

\* self.types.get(name)
TypesGet(ts, n) ==
    IF WithName(ts, n) = {} THEN Raise(Err("KeyError", "no such type"))
    ELSE Ret(ts[CHOOSE i \in WithName(ts, n) : TRUE])

\* DefinitionBase.fieldtypes
Fieldtypes(d) ==
    IF IsCompound(Basetype(d.type)) /\ d.type # S("Enumerated")
    THEN {d.fields[i].type : i \in {j \in 1..Len(d.fields) :
                                       ~IsBuiltin(d.fields[j].type)}}
    ELSE {}

\* DefinitionBase.enumerated
Enumerated(d) ==
    IF d.type \in SimpleTypes
    THEN Raise(Err("TypeError", "cannot be extended as an enumerated type"))
    ELSE IF d.type = S("Enumerated") THEN Ret(d)
    ELSE IF ~HasFields(d) THEN Raise(Err("AttributeError", "fields"))
    ELSE Ret([name |-> <<"Enum", "-">> \o d.name, type |-> S("Enumerated"),
              options |-> <<>>,
              description |-> S("Derived Enumerated from") \o d.name,
              fields |-> [i \in 1..Len(d.fields) |->
                            [id |-> d.fields[i].id, value |-> d.fields[i].name,
                             description |-> d.fields[i].description]]])

\* one of the two blocks of DefinitionBase.process_options, for ktype or
\* vtype: the derived-type cache afterwards
ProcessOption(d, key, ts, dv) ==
    IF key \in DOMAIN d.options /\ d.options[key] # <<>> /\ Head(d.options[key]) = "$"
    THEN LET val == d.options[key]
             type_def == TypesGet(ts, Tail(val))
             e == Enumerated(type_def.val)
         IN  IF val \in DOMAIN dv THEN Ret(dv)
             ELSE IF ~type_def.ok
             THEN Raise(Err("AttributeError", "NoneType has no enumerated"))
             ELSE IF ~e.ok THEN e
             ELSE Ret(Put(dv, val, e.val))
    ELSE Ret(dv)

\* DefinitionBase.process_options
ProcessOptions(d, ts, dv) ==
    LET k == ProcessOption(d, "ktype", ts, dv)
    IN  IF k.ok THEN ProcessOption(d, "vtype", ts, k.val) ELSE k

\* the loop of _setSchema over the definitions, from the i-th on: the
\* derived-type cache and schema_types when it ends or raises
RECURSIVE ProcessFrom(_, _, _, _)
ProcessFrom(ts, i, dv, st) ==
    IF i > Len(ts) THEN [ok |-> TRUE, derived |-> dv, schema_types |-> st]
    ELSE LET p == ProcessOptions(ts[i], ts, dv)
         IN  IF p.ok THEN ProcessFrom(ts, i + 1, p.val, st \cup Fieldtypes(ts[i]))
             ELSE [ok |-> FALSE, err |-> p.err, derived |-> dv, schema_types |-> st]

\* the types verify_schema appends "Type of <name> not defined" for: the
\* type keyword is not in _schema_types
TypeNotDefined(ts, st) == {ts[i].name : i \in {j \in 1..Len(ts) : ts[j].type \notin st}}

\* Schema.verify_schema(silent=False): the definitions are verified in order
\* and the first of them to raise ends the run; the errors collected along
\* the way are looked at after the last one
verify_schema(ts, st) ==
    LET rs == [i \in 1..Len(ts) |-> DefVerify(ts[i], st, FALSE)]
    IN  IF Len(ts) = 0
        THEN Raise(Err("FormatError", "Schema not properly defined"))
        ELSE IF ~SeqResult(rs).ok THEN SeqResult(rs)
        ELSE IF TypeNotDefined(ts, st) # {}
        THEN Raise(Err("TypeError", "Type not defined"))
        ELSE Ret(<<>>)

\* the state of one Schema object
SchemaState(m, ts, dv) == [meta |-> m, types |-> ts, derived |-> dv]

\* the end of _setSchema: the loop over the definitions has run with outcome
\* p, and verify_schema() runs if it did not raise
setSchemaVerify(m, ts, p) ==
    [self |-> SchemaState(m, ts, p.derived), schema_types |-> p.schema_types,
     res |-> IF p.ok THEN verify_schema(ts, p.schema_types) ELSE Raise(p.err)]

\* _setSchema from super().__init__(data, _config=self) on, defs being the
\* outcome of make_definition on every type
setSchemaInit(self, st, m, defs) ==
    IF ~defs.ok
    THEN [self |-> [self EXCEPT !.meta = m], schema_types |-> st, res |-> defs]
    ELSE setSchemaVerify(m, TypesDict(defs.val),
                         ProcessFrom(TypesDict(defs.val), 1, self.derived, st))

\* _setSchema once self.meta is assigned, data being the outcome of
\* self.simplify(data, False, True, False, False)
setSchemaData(self, st, m, data) ==
    IF ~data.ok
    THEN [self |-> [self EXCEPT !.meta = m], schema_types |-> st, res |-> data]
    ELSE setSchemaInit(self, st, m,
            SeqResult([i \in 1..Len(data.val) |-> MakeDefinition(data.val[i])]))

\* _setSchema once Meta(data.get("meta", {})) is built, with outcome m
setSchemaMeta(self, st, raw, m) ==
    IF ~m.ok THEN [self |-> self, schema_types |-> st, res |-> m]
    ELSE setSchemaData(self, st, m.val,
            Simplify(raw.types, FALSE, TRUE, FALSE, FALSE,
                     m.val.config.values["Sys"]))

\* Schema._setSchema(raw) on the object in state self, with the class-level
\* set st: the state of the object and the set afterwards, and the outcome
setSchema(self, st, raw) == setSchemaMeta(self, st, raw, MakeMeta(raw.meta))

\* the sequence of the names of _definition_order that name a type of ts,
\* then the other types in the order of the dict
DefinitionOrder == <<S("Action"), S("Target"), S("Port")>>
SchemaOrder(ts) ==
    LET listed == SelectSeq(DefinitionOrder, LAMBDA n : WithName(ts, n) # {})
        others == SelectSeq(ts, LAMBDA d : d.name \notin SeqToSet(DefinitionOrder))
    IN  [i \in 1..Len(listed) |-> TypesGet(ts, listed[i]).val] \o others

\* Field.schema, and EnumeratedField.schema for a field with a value
FieldSchema(f) ==
    IF "value" \in DOMAIN f THEN Ret(f)
    ELSE LET o == OptionsSchema(f.options, f.type, TRUE)
         IN  IF o.ok THEN Ret([f EXCEPT !.options = o.val]) ELSE o

\* DefinitionBase.schema
DefSchema(d) ==
    LET o == OptionsSchema(d.options, d.type, FALSE)
        fs == IF IsCompound(Basetype(d.type))
              THEN IF HasFields(d)
                   THEN SeqResult([i \in 1..Len(d.fields) |-> FieldSchema(d.fields[i])])
                   ELSE Raise(Err("AttributeError", "fields"))
              ELSE Ret(<<>>)
        base == [name |-> d.name, type |-> d.type,
                 options |-> IF o.ok THEN o.val ELSE <<>>,
                 description |-> d.description]
    IN  IF ~o.ok THEN o
        ELSE IF ~fs.ok THEN fs
        ELSE IF IsCompound(Basetype(d.type)) THEN Ret(Put(base, "fields", fs.val))
        ELSE Ret(base)

\* Schema.schema()
SchemaOut(self) ==
    LET ordered == SchemaOrder(self.types)
        ts == SeqResult([i \in 1..Len(ordered) |-> DefSchema(ordered[i])])
    IN  IF ts.ok THEN Ret([meta |-> MetaSchema(self.meta), types |-> ts.val])
        ELSE ts

---------------------------------------------------------------------------
(* Instance validation: Schema.validate_as, Field.validate and the validate *)
(* of every Definition class.  An instance is a tagged value: None, an int, *)
(* a str (a sequence of one-character atoms), a list, or a dict (a sequence *)
(* of <<key, value>>, the keys being names).  A validate returns None, one  *)
(* error, or a list of errors and of None.  Every operator also returns the *)
(* Schema object as the call leaves it.                                     *)

NoneV == [k |-> "none"]
IntV(n) == [k |-> "int", int |-> n]
StrV(str) == [k |-> "str", str |-> str]
ListV(items) == [k |-> "list", list |-> items]
DictV(pairs) == [k |-> "dict", dict |-> pairs]

RNone == NoneV
RErr(e) == [k |-> "error", error |-> e]
RList(es) == ListV(es)

\* what a call hands back: its outcome and the Schema object afterwards
Out(res, self) == [res |-> res, self |-> self]

\* not inst
Falsy(inst) ==
    \/ inst.k = "none"
    \/ inst.k = "int" /\ inst.int = 0
    \/ inst.k = "str" /\ inst.str = <<>>
    \/ inst.k = "list" /\ inst.list = <<>>
    \/ inst.k = "dict" /\ inst.dict = <<>>

\* len(inst)
PyLen(inst) ==
    CASE inst.k = "str" -> Ret(Len(inst.str))
      [] inst.k = "list" -> Ret(Len(inst.list))
      [] inst.k = "dict" -> Ret(Len(inst.dict))
      [] OTHER -> Raise(Err("TypeError", "object has no len()"))

\* the items a for loop over inst visits
PyIter(inst) ==
    CASE inst.k = "list" -> Ret(inst.list)
      [] inst.k = "str" -> Ret([i \in 1..Len(inst.str) |-> StrV(<<inst.str[i]>>)])
      [] inst.k = "dict" -> Ret([i \in 1..Len(inst.dict) |-> StrV(inst.dict[i][1])])
      [] OTHER -> Raise(Err("TypeError", "object is not iterable"))

\* _Python_Types and isinstance(inst, python_type)
PythonTypes == [Binary |-> "bytes", Boolean |-> "bool", Integer |-> "int",
                Number |-> "float", String |-> "str"]
HasPythonType(type) == Len(type) = 1 /\ type[1] \in DOMAIN PythonTypes
IsInstance(inst, type) == inst.k = PythonTypes[type[1]]

\* errs if isinstance(errs, list) else [errs]
AsList(r) ==
    IF r.k = "list" THEN r.list ELSE IF r.k = "none" THEN <<NoneV>> ELSE <<r.error>>

\* the three bounds checks on a number of keys or items, in the order the
\* code makes them; max_keys = 100 if max_keys <= 0
CountErrors(d, count) ==
    LET min_keys == OptGet(d.options, "minv", 0)
        given == OptGet(d.options, "maxv", 0)
        max_keys == IF given <= 0 THEN 100 ELSE given
    IN  IF min_keys > count
        THEN <<Err("ValidationError", "minimum field count not met")>>
        ELSE IF count > max_keys
        THEN <<Err("ValidationError", "maximum field count exceeded")>>
        ELSE <<>>

\* DefinitionBase.get_field
GetField(d, name) ==
    LET found == {i \in 1..Len(d.fields) : d.fields[i].name = name}
    IN  IF Cardinality(found) = 1 THEN Ret(d.fields[CHOOSE i \in found : TRUE])
        ELSE Raise(Err("AttributeError", "NoneType has no attribute"))

\* a format option on a validated definition: the registered validators are
\* not part of the model, and no drawn schema has a format option
FormatErrors(d, inst) == <<>>

\* the length check of CustomDefinition.validate for Binary and String
LengthErrors(d, inst_len) ==
    LET min_len == OptGet(d.options, "minv", 0)
        max_len == OptGet(d.options, "maxv", 255)
    IN  IF min_len > inst_len
        THEN <<Err("ValueError", "minimum length not met")>>
        ELSE IF max_len < inst_len
        THEN <<Err("ValueError", "maximum length exceeded")>>
        ELSE <<>>

RangeErrorsNoZero(d, inst) ==
    LET min_val == OptGet(d.options, "minv", 0)
        max_val == OptGet(d.options, "maxv", 0)
    IN  IF min_val > inst
        THEN <<Err("ValueError", "minimum not met")>>
        ELSE IF max_val < inst
        THEN <<Err("ValueError", "maximum exceeded")>>
        ELSE <<>>

RangeErrorsNoDefault(d, inst) ==
    IF "minv" \in DOMAIN d.options /\ d.options["minv"] > inst
    THEN <<Err("ValueError", "minimum not met")>>
    ELSE IF OptGet(d.options, "maxv", 0) # 0 /\ OptGet(d.options, "maxv", 0) < inst
    THEN <<Err("ValueError", "maximum exceeded")>>
    ELSE <<>>

\* the value check of CustomDefinition.validate for Integer and Number
RangeErrors(d, inst) ==
    LET min_val == OptGet(d.options, "minv", 0)
        max_val == OptGet(d.options, "maxv", 0)
    IN  IF min_val > inst
        THEN <<Err("ValueError", "minimum not met")>>
        ELSE IF max_val # 0 /\ max_val < inst
        THEN <<Err("ValueError", "maximum exceeded")>>
        ELSE <<>>

\* CustomDefinition.validate
CustomValidate(d, inst) ==
    LET typed == IF HasPythonType(d.type)
                    /\ ~IsInstance(IF d.type = S("Binary") /\ inst.k = "str"
                                   THEN [k |-> "bytes"] ELSE inst,
                                   d.type)
                 THEN <<Err("ValidationError", "is not valid as its type")>>
                 ELSE <<>>
    IN  IF d.type = S("None") /\ inst.k # "none"
        THEN Ret(RList(<<Err("ValidationError", "is not valid as its type")>>))
        ELSE IF d.type \in {S("Binary"), S("String")}
        THEN IF PyLen(inst).ok
             THEN Ret(RList(typed \o FormatErrors(d, inst)
                               \o LengthErrors(d, PyLen(inst).val)))
             ELSE PyLen(inst)
        ELSE IF d.type \in {S("Integer"), S("Number")}
        THEN IF inst.k = "int"
             THEN Ret(RList(typed \o FormatErrors(d, inst) \o RangeErrors(d, inst.int)))
             ELSE Raise(Err("TypeError", "'>' not supported"))
        ELSE Ret(RList(typed \o FormatErrors(d, inst)))

\* Enumerated.validate
EnumeratedValidate(d, inst) ==
    LET byId == "id" \in DOMAIN d.options
        allowed == {IF byId THEN IntV(d.fields[i].id) ELSE StrV(d.fields[i].value) :
                       i \in 1..Len(d.fields)}
    IN  IF inst \notin allowed
        THEN Ret(RErr(Err("ValidationError", "invalid value")))
        ELSE Ret(RNone)

\* Array.validate, for a definition without a format option
ArrayValidate(d, inst) ==
    IF "format" \in DOMAIN d.options THEN Ret(RList(FormatErrors(d, inst)))
    ELSE IF ~PyLen(inst).ok THEN PyLen(inst)
    ELSE Ret(RList(CountErrors(d, PyLen(inst).val)))

NoAttribute(what) == Raise(Err("AttributeError", what))

\* the definition Field.validate means to keep under the key _<name>
CachedDefinition(field) ==
    [name |-> <<"_">> \o field.name, type |-> field.type,
     options |-> field.options, description |-> field.description]

FieldCacheStores(field, self) ==
    IF WithName(self.types, <<"_">> \o field.name) # {} THEN Ret(self)
    ELSE Ret([self EXCEPT !.types = Append(@, CachedDefinition(field))])

\* Field.validate on a field of a primitive type, up to the definition it
\* validates with: the first thing read is self._schema, an attribute that
\* nothing sets, so the call raises and nothing is stored
FieldCache(field, self) ==
    NoAttribute("'Field' object has no attribute '_schema'")

\* Field.validate from the validation by the definition on
FieldFinish(required, r, self) ==
    IF r.ok THEN Out(Ret(RList(required \o AsList(r.val))), self) ELSE Out(r, self)

\* the validation by the definition the cache holds for the field
FieldCached(field, inst, required, cached) ==
    FieldFinish(required,
                CustomValidate(TypesGet(cached.types, <<"_">> \o field.name).val, inst),
                cached)

\* Field.validate
FieldValidate(field, inst, card_enforce, self) ==
    LET min_card == OptGet(field.options, "minc", 1)
        max_card == OptGet(field.options, "maxc", Max(min_card, 1))
        required == IF card_enforce /\ min_card = max_card /\ min_card = 1
                       /\ Falsy(inst)
                    THEN <<Err("ValidationError", "field is required")>>
                    ELSE <<>>
        c == FieldCache(field, self)
    IN  IF field.type \in SimpleTypes
        THEN IF c.ok THEN FieldCached(field, inst, required, c.val) ELSE Out(c, self)
        ELSE Out(NoAttribute("'Field' object has no attribute '_schema'"), self)

\* the loop of Record.validate and Map.validate over the items of inst, from
\* the i-th on
RECURSIVE FieldsFrom(_, _, _, _, _, _)
FieldsNext(d, pairs, i, card_enforce, errs, r) ==
    IF r.res.ok
    THEN FieldsFrom(d, pairs, i + 1, card_enforce, r.self, errs \o r.res.val.list)
    ELSE r
FieldsFrom(d, pairs, i, card_enforce, self, errs) ==
    IF i > Len(pairs) THEN Out(Ret(RList(errs)), self)
    ELSE IF ~GetField(d, pairs[i][1]).ok THEN Out(GetField(d, pairs[i][1]), self)
    ELSE FieldsNext(d, pairs, i, card_enforce, errs,
                    FieldValidate(GetField(d, pairs[i][1]).val, pairs[i][2],
                                  card_enforce, self))

NoExtraFields(d, inst) == {}
\* extra_fields of Record.validate and Map.validate: the keys of inst that
\* are not the name of a field
ExtraFields(d, inst) ==
    {inst.dict[i][1] : i \in 1..Len(inst.dict)}
        \ {d.fields[i].name : i \in 1..Len(d.fields)}

\* ValidationError("... unknown field(s): " + ", ".join(extra_fields)): the
\* message carries every key of extra_fields
UnknownFields(names) ==
    [cls |-> "ValidationError", msg |-> "unknown field(s)", names |-> names]

\* Record.validate (card_enforce) and Map.validate (not card_enforce)
RecordValidate(d, inst, card_enforce, self) ==
    IF inst.k # "dict" THEN Out(NoAttribute("object has no attribute 'keys'"), self)
    ELSE IF ExtraFields(d, inst) # {}
    THEN Out(Ret(RList(<<UnknownFields(ExtraFields(d, inst))>>)), self)
    ELSE IF CountErrors(d, Len(inst.dict)) # <<>>
    THEN Out(Ret(RList(CountErrors(d, Len(inst.dict)))), self)
    ELSE FieldsFrom(d, inst.dict, 1, card_enforce, self, <<>>)

\* ArrayOf.validate: the check of the unique option
UniqueErrors(d, items) ==
    LET dups == {i \in 1..Len(items) : \E j \in 1..Len(items) :
                                          j # i /\ items[j] = items[i]}
    IN  IF "unique" \notin DOMAIN d.options THEN Ret(<<>>)
        ELSE IF \E i \in 1..Len(items) : items[i].k \in {"list", "dict"}
        THEN Raise(Err("TypeError", "unhashable type"))
        ELSE IF dups = {} THEN Ret(<<>>)
        ELSE IF \A i \in dups : items[i].k = "str"
        THEN Ret(<<Err("ValidationError", "fields are not unique")>>)
        ELSE Raise(Err("TypeError", "sequence item: expected str instance"))

RECURSIVE DefValidate(_, _, _)

\* the loop of ArrayOf.validate over the items, from the i-th on
RECURSIVE ItemsFrom(_, _, _, _, _)
ItemsNext(schema_type, items, i, errs, r) ==
    IF r.res.ok
    THEN ItemsFrom(schema_type, items, i + 1, r.self, errs \o AsList(r.res.val))
    ELSE r
ItemsFrom(schema_type, items, i, self, errs) ==
    IF i > Len(items) THEN Out(Ret(RList(errs)), self)
    ELSE IF ~schema_type.ok
    THEN Out(NoAttribute("'NoneType' object has no attribute 'validate'"), self)
    ELSE ItemsNext(schema_type, items, i, errs,
                   DefValidate(schema_type.val, items[i], self))

\* ArrayOf.validate
ArrayOfValidate(d, inst, self) ==
    LET items == PyIter(inst).val
        counted == CountErrors(d, PyLen(inst).val)
        unique == UniqueErrors(d, items)
        vtype == OptGet(d.options, "vtype", <<>>)
    IN  IF ~PyLen(inst).ok THEN Out(PyLen(inst), self)
        ELSE IF ~unique.ok THEN Out(unique, self)
        ELSE IF vtype = <<>>
        THEN Out(Ret(RList(counted \o unique.val
                           \o <<Err("SchemaException", "invalid value type given")>>)),
                 self)
        ELSE IF HasPythonType(vtype)
        THEN Out(Ret(RList(counted \o unique.val
                           \o IF \A i \in 1..Len(items) : IsInstance(items[i], vtype)
                              THEN <<>>
                              ELSE <<Err("ValidationError", "values are not valid")>>)),
                 self)
        ELSE ItemsFrom(IF Head(vtype) = "$"
                       THEN IF vtype \in DOMAIN self.derived
                            THEN Ret(self.derived[vtype])
                            ELSE Raise(Err("KeyError", "no such type"))
                       ELSE TypesGet(self.types, vtype),
                       items, 1, self, counted \o unique.val)

\* the loop of MapOf.validate over the items, from the i-th on: the key is
\* validated first, then the value
RECURSIVE PairsFrom(_, _, _, _, _, _)
PairsValue(key_cls, value_cls, pairs, i, errs, r) ==
    IF r.res.ok
    THEN PairsFrom(key_cls, value_cls, pairs, i + 1, r.self,
                   errs \o AsList(r.res.val))
    ELSE r
PairsKey(key_cls, value_cls, pairs, i, errs, r) ==
    IF ~r.res.ok THEN r
    ELSE IF ~value_cls.ok
    THEN Out(NoAttribute("'NoneType' object has no attribute 'validate'"), r.self)
    ELSE PairsValue(key_cls, value_cls, pairs, i,
                    errs \o <<IF r.res.val.k = "error" THEN r.res.val.error
                               ELSE r.res.val>>,
                    DefValidate(value_cls.val, pairs[i][2], r.self))
PairsFrom(key_cls, value_cls, pairs, i, self, errs) ==
    IF i > Len(pairs) THEN Out(Ret(RList(errs)), self)
    ELSE IF ~key_cls.ok
    THEN Out(NoAttribute("'NoneType' object has no attribute 'validate'"), self)
    ELSE PairsKey(key_cls, value_cls, pairs, i, errs,
                  DefValidate(key_cls.val, StrV(pairs[i][1]), self))

\* MapOf.validate: a ktype or vtype that starts with $ is looked up in
\* self._config._types, an attribute a Schema does not have
MapOfValidate(d, inst, self) ==
    IF inst.k # "dict" THEN Out(NoAttribute("object has no attribute 'keys'"), self)
    ELSE IF "ktype" \notin DOMAIN d.options \/ "vtype" \notin DOMAIN d.options
    THEN Out(NoAttribute("'Options' object has no attribute"), self)
    ELSE IF Head(d.options["ktype"]) = "$" \/ Head(d.options["vtype"]) = "$"
    THEN Out(NoAttribute("'Schema' object has no attribute '_types'"), self)
    ELSE PairsFrom(TypesGet(self.types, d.options["ktype"]),
                   TypesGet(self.types, d.options["vtype"]),
                   inst.dict, 1, self, CountErrors(d, Len(inst.dict)))

\* Choice.validate from the chosen field on
ChoiceFinish(r) ==
    IF r.res.ok THEN Out(Ret(RList(AsList(r.res.val))), r.self) ELSE r
ChoiceField(field, value, self) ==
    IF TypesGet(self.types, field.type).ok
    THEN ChoiceFinish(DefValidate(TypesGet(self.types, field.type).val, value, self))
    ELSE Out(Ret(RList(<<Err("ValidationError", "invalid value for choice")>>)), self)

ChoiceFirstKey(inst) == IF Len(inst.dict) >= 1 THEN inst.dict[1][1] ELSE <<>>
\* key = key[0] if len(key) == 1 else None; <<>> stands for None
ChoiceKey(inst) == IF Len(inst.dict) = 1 THEN inst.dict[1][1] ELSE <<>>

\* Choice.validate
ChoiceValidate(d, inst, self) ==
    LET key == ChoiceKey(inst)
        byId == "id" \in DOMAIN d.options
    IN  IF inst.k # "dict"
        THEN Out(NoAttribute("object has no attribute 'keys'"), self)
        ELSE IF key # <<>> /\ ~byId
                /\ key \in {d.fields[i].name : i \in 1..Len(d.fields)}
        THEN IF GetField(d, key).ok
             THEN ChoiceField(GetField(d, key).val, inst.dict[1][2], self)
             ELSE Out(GetField(d, key), self)
        ELSE Out(Ret(RList(<<Err("ValidationError", "invalid value for choice")>>)),
                 self)

\* <definition>.validate(inst), by the class of the definition
DefValidate(d, inst, self) ==
    CASE DefClass(d.type) = S("Record") -> RecordValidate(d, inst, TRUE, self)
      [] DefClass(d.type) = S("Map") -> RecordValidate(d, inst, FALSE, self)
      [] DefClass(d.type) = S("Choice") -> ChoiceValidate(d, inst, self)
      [] DefClass(d.type) = S("ArrayOf") -> ArrayOfValidate(d, inst, self)
      [] DefClass(d.type) = S("MapOf") -> MapOfValidate(d, inst, self)
      [] DefClass(d.type) = S("Array") -> Out(ArrayValidate(d, inst), self)
      [] DefClass(d.type) = S("Enumerated") -> Out(EnumeratedValidate(d, inst), self)
      [] OTHER -> Out(CustomValidate(d, inst), self)

\* Schema.validate_as from the return of the definition's validate on
ValidateAsFinish(rtn, silent, self) ==
    LET errors == SelectSeq(IF rtn.k = "list" THEN rtn.list ELSE <<>>,
                            LAMBDA e : e # NoneV /\ e # ListV(<<>>))
    IN  IF rtn.k = "error"
        THEN Out(Raise(Err("TypeError", "object of type 'ValidationError' has no len()")),
                 self)
        ELSE IF errors = <<>> THEN Out(Ret(RNone), self)
        ELSE IF silent THEN Out(Ret(RList(errors)), self)
        ELSE Out(Raise(errors[1]), self)

ValidateAsReturn(r, silent) ==
    IF r.res.ok THEN ValidateAsFinish(r.res.val, silent, r.self) ELSE r

\* Schema.validate_as(inst, _type, silent)
validate_as(self, inst, type, silent) ==
    IF "exports" \notin DOMAIN self.meta.data
    THEN Out(NoAttribute("'Meta' object has no attribute 'exports'"), self)
    ELSE IF \E i \in 1..Len(self.meta.data["exports"]) :
                self.meta.data["exports"][i] = type
    THEN IF TypesGet(self.types, type).ok
         THEN ValidateAsReturn(DefValidate(TypesGet(self.types, type).val, inst, self),
                               silent)
         ELSE Out(NoAttribute("'NoneType' object has no attribute 'validate'"), self)
    ELSE ValidateAsFinish(RList(<<Err("ValidationError", "invalid export type")>>),
                          silent, self)

---------------------------------------------------------------------------
(* Runs of the option codec: an Options value is drawn, verified, written  *)
(* as tokens by schema() and read back by Options(tokens).                 *)

OptIntVals == (0 - 1)..MaxCard

\* the values drawn for an option; ktype Enum(Foo) is stored as $Foo by
\* __setattr__, the legacy vtype _Enum-Foo is kept as it is
OptValues(k) ==
    IF k \in BoolOpts THEN BOOLEAN
    ELSE IF k \in IntOpts THEN OptIntVals
    ELSE CASE k = "ktype" -> {S("String"), <<"Enum(", "Foo", ")">>}
           [] k = "vtype" -> {S("String"), <<"_Enum-", "Foo">>}
           [] k = "format" -> {S("email"), <<"u", "8">>, S("bogus")}
           [] k = "enum" -> {S("Foo")}
           [] k = "pattern" -> {S("^a$")}
           [] k = "default" -> {S("x")}
           [] k = "tfield" -> {S("kind")}

RECURSIVE DictsOver(_)
\* every dict with exactly the keys K
DictsOver(K) ==
    IF K = {} THEN {<<>>}
    ELSE LET k == CHOOSE x \in K : TRUE
         IN  {Put(m, k, v) : m \in DictsOver(K \ {k}), v \in OptValues(k)}

OptDicts ==
    UNION {DictsOver(K) : K \in {X \in SUBSET (FieldOptKeys \cup TypeOptKeys) :
                                    Cardinality(X) <= MaxOpts}}

OptBaseTypes == JadnTypeNames \cup {S("Foo")}

OptIdle ==
    /\ optPc = "off" /\ optIn = <<>> /\ optBase = <<>> /\ optField = FALSE
    /\ optErrs = <<>> /\ optTokens = <<>> /\ optOut = <<>>

OptInit ==
    /\ optPc = "start"
    /\ optIn \in {OptionsFromDict(d) : d \in OptDicts}
    /\ optBase \in OptBaseTypes
    /\ optField \in BOOLEAN
    /\ optErrs = <<>> /\ optTokens = <<>> /\ optOut = <<>>

\* o.verify(basetype, field=..., silent=True)
OptVerify ==
    /\ optPc = "start"
    /\ optErrs' = VerifyErrors(optIn, optBase, optField)
    /\ optPc' = "verified"
    /\ UNCHANGED <<optIn, optBase, optField, optTokens, optOut, defVars, schVars, fmtVars, valVars>>

\* o.schema(basetype, field=...)
OptEncode ==
    /\ optPc = "verified"
    /\ optTokens' = OptionsSchema(optIn, optBase, optField)
    /\ optPc' = "encoded"
    /\ UNCHANGED <<optIn, optBase, optField, optErrs, optOut, defVars, schVars, fmtVars, valVars>>

\* Options(tokens) on the tokens schema() returned
OptDecode ==
    /\ optPc = "encoded"
    /\ optTokens.ok
    /\ optOut' = OptionsFromTokens(optTokens.val)
    /\ optPc' = "decoded"
    /\ UNCHANGED <<optIn, optBase, optField, optErrs, optTokens, defVars, schVars, fmtVars, valVars>>

---------------------------------------------------------------------------
(* Runs of the option decoder on drawn token lists (SpecDecode): the tokens *)
(* carry tags of the tag table, tags outside it, and repeated tags.         *)

\* longest token list drawn
MaxTokens == 2

DecTokens ==
    {<<"[", "1">>, <<"[", "2">>, <<"]", "1">>, <<"{", "0">>, <<"=">>,
     <<"/", "email">>, <<"*", "String">>, <<"?", "x">>, <<"x", "5">>}

DecInit ==
    /\ optPc = "tokens"
    /\ optTokens \in {Ret(ts) : ts \in UNION {[1..n -> DecTokens] : n \in 0..MaxTokens}}
    /\ optIn = <<>> /\ optBase = <<>> /\ optField = FALSE
    /\ optErrs = <<>> /\ optOut = <<>>

\* Options(tokens) on a drawn token list
OptDecodeDrawn ==
    /\ optPc = "tokens"
    /\ optOut' = OptionsFromTokens(optTokens.val)
    /\ optPc' = "read"
    /\ UNCHANGED <<optIn, optBase, optField, optErrs, optTokens, defVars, schVars, fmtVars, valVars>>

---------------------------------------------------------------------------
(* Runs of Definition.verify on a drawn Definition *)

\* largest number of fields of a drawn Definition
MaxFields == 2
\* largest field id drawn
MaxId == 3

\* the type names handed to verify as schema_types: the builtin names and one
\* declared name
DefKnownTypes == JadnTypeNames \cup {S("Known")}

\* (type, options) of a drawn field: plain, of an unknown type, or with a
\* cardinality error
DefFieldFlavors ==
    {[type |-> S("String"), options |-> <<>>],
     [type |-> S("Unknown"), options |-> <<>>],
     [type |-> S("Known"), options |-> [minc |-> 2, maxc |-> 1]]}

DefFieldSet ==
    {[id |-> i, name |-> n, type |-> f.type, options |-> f.options,
      description |-> <<>>] :
        i \in 1..MaxId, n \in {S("a"), S("b")}, f \in DefFieldFlavors}

DefEnumFieldSet ==
    {[id |-> i, value |-> n, description |-> <<>>] :
        i \in 1..MaxId, n \in {S("a"), S("b")}}

SeqsUpTo(X, n) == UNION {[1..k -> X] : k \in 0..n}

DefInputs ==
    {[name |-> S("T"), type |-> t, options |-> o, description |-> <<>>,
      fields |-> fs] :
        t \in {S("Array"), S("Choice"), S("Map"), S("Record")},
        o \in {<<>>, [minv |-> 2, maxv |-> 1]},
        fs \in SeqsUpTo(DefFieldSet, MaxFields)}
    \cup
    {[name |-> S("T"), type |-> S("Enumerated"), options |-> o,
      description |-> <<>>, fields |-> fs] :
        o \in {<<>>, [id |-> TRUE]},
        fs \in SeqsUpTo(DefEnumFieldSet, MaxFields)}

DefIdle == defPc = "off" /\ defIn = <<>> /\ defErrs = <<>>

DefInit == defPc = "start" /\ defIn \in DefInputs /\ defErrs = <<>>

\* d.verify(schema_types, silent=True)
DefVerifySilent ==
    /\ defPc = "start"
    /\ defErrs' = DefVerify(defIn, DefKnownTypes, TRUE)
    /\ defPc' = "silent"
    /\ UNCHANGED <<defIn, optVars, schVars, fmtVars, valVars>>

\* d.verify(schema_types, silent=False)
DefVerifyRaise ==
    /\ defPc = "start"
    /\ defErrs' = DefVerify(defIn, DefKnownTypes, FALSE)
    /\ defPc' = "raise"
    /\ UNCHANGED <<defIn, optVars, schVars, fmtVars, valVars>>

---------------------------------------------------------------------------
(* Runs of the Schema container (Spec): two Schema objects of one process   *)
(* load schemas drawn from a catalogue, write themselves out with schema(), *)
(* load what the other wrote, and simplify.  BaseModel._schema_types is an  *)
(* attribute of the class, so schema_types is one set for both objects.     *)

Objs == {"A", "B"}

Tok(tag, n) == <<tag>> \o IntToStr(n)
RawField(id, name, type, options) ==
    [id |-> id, name |-> S(name), type |-> S(type), options |-> options,
     description |-> <<>>]
RawEnumField(id, value) == [id |-> id, value |-> S(value), description |-> <<>>]
RawType(name, type, options, fields) ==
    [name |-> S(name), type |-> S(type), options |-> options,
     description |-> <<>>, fields |-> fields]
RawPlain(name, type, options) ==
    [name |-> S(name), type |-> S(type), options |-> options, description |-> <<>>]

MetaPlain == [module |-> S("m1"), exports |-> <<S("T1")>>]
MetaSys == [module |-> S("m2"), exports |-> <<S("T1")>>,
            config |-> (<<"$", "Sys">> :> S("."))]
MetaBad == [module |-> S("m3"), config |-> (<<"$", "MaxElements">> :> 0)]

\* the option lists of a field: minc and maxc absent or in 0..MaxCard
CardChoice == {<<>>} \cup {<<n>> : n \in 0..MaxCard}
CardTokens ==
    {(IF lo = <<>> THEN <<>> ELSE <<Tok("[", lo[1])>>)
       \o (IF hi = <<>> THEN <<>> ELSE <<Tok("]", hi[1])>>) :
         lo \in CardChoice, hi \in CardChoice}

\* a Record with one field of every multiplicity
CardSchemas ==
    {[meta |-> MetaPlain,
      types |-> <<RawType("T1", "Record", <<>>,
                          <<RawField(1, "x", "Integer", o)>>)>>] : o \in CardTokens}

\* a Record that refers to an Enumerated of the schema
RefSchema ==
    [meta |-> MetaPlain,
     types |-> <<RawType("T1", "Record", <<>>, <<RawField(1, "x", "Color", <<>>)>>),
                 RawType("Color", "Enumerated", <<>>,
                         <<RawEnumField(1, "red"), RawEnumField(2, "green")>>)>>]

\* a Record with two fields of id 1: verification rejects it
DupSchema ==
    [meta |-> MetaSys,
     types |-> <<RawType("T1", "Record", <<>>,
                         <<RawField(1, "x", "Integer", <<>>),
                           RawField(1, "y", "String", <<>>)>>)>>]

\* a type whose name is not a TypeName: building the Definition fails
BadNameSchema ==
    [meta |-> MetaSys,
     types |-> <<RawType("T1", "Record", <<>>, <<RawField(1, "x", "Integer", <<>>)>>),
                 RawPlain("x", "String", <<>>)>>]

\* a config value out of range: building Meta fails
BadMetaSchema ==
    [meta |-> MetaBad,
     types |-> <<RawType("T1", "Record", <<>>, <<RawField(1, "x", "Integer", <<>>)>>)>>]

\* an Enumerated derived from a Record by its enum option; _definition_order
\* lists both names, Action before Target
EnumSchema ==
    [meta |-> MetaPlain,
     types |-> <<RawType("T1", "Record", <<>>, <<RawField(1, "x", "Action", <<>>)>>),
                 RawType("Target", "Record", <<>>,
                         <<RawField(1, "port", "Integer", <<>>)>>),
                 RawType("Action", "Enumerated", <<<<"#", "Target">>>>, <<>>)>>]

\* a MapOf whose keys are the derived enumeration of a Record
MapOfSchema ==
    [meta |-> MetaPlain,
     types |-> <<RawType("T1", "Record", <<>>, <<RawField(1, "x", "Port", <<>>)>>),
                 RawType("Target", "Record", <<>>,
                         <<RawField(1, "port", "Integer", <<>>)>>),
                 RawPlain("Port", "MapOf",
                          <<<<"+", "$", "Target">>, <<"*", "String">>>>)>>]

\* a field with options of its type
SysSchema ==
    [meta |-> MetaSys,
     types |-> <<RawType("T1", "Record", <<>>,
                         <<RawField(1, "x", "Integer", <<Tok("{", 1)>>)>>)>>]

EmptySchema == [meta |-> MetaPlain, types |-> <<>>]

Catalogue ==
    CardSchemas \cup {RefSchema, DupSchema, BadNameSchema, BadMetaSchema,
                      EnumSchema, MapOfSchema, SysSchema, EmptySchema}

\* Schema(): no schema given
NewSchema == SchemaState(EmptyMeta, <<>>, <<>>)
Self(o) == SchemaState(meta[o], types[o], derived[o])

SchInit ==
    /\ meta = [o \in Objs |-> NewSchema.meta]
    /\ types = [o \in Objs |-> NewSchema.types]
    /\ derived = [o \in Objs |-> NewSchema.derived]
    /\ schema_types = JadnTypeNames
    /\ status = [o \in Objs |-> "new"]
    /\ loads = 0
    /\ out = [kind |-> "none"]

\* what a load call that ended as r leaves behind
Install(o, r) ==
    /\ meta' = [meta EXCEPT ![o] = r.self.meta]
    /\ types' = [types EXCEPT ![o] = r.self.types]
    /\ derived' = [derived EXCEPT ![o] = r.self.derived]
    /\ schema_types' = r.schema_types
    /\ status' = [status EXCEPT ![o] = IF r.res.ok THEN "loaded" ELSE "failed"]

\* o.loads(raw)
Loads(o, raw) ==
    /\ loads < MaxLoads
    /\ loads' = loads + 1
    /\ Install(o, setSchema(Self(o), schema_types, raw))

\* o.loads(raw) for a schema of the catalogue
Load ==
    /\ \E o \in Objs, raw \in Catalogue : Loads(o, raw)
    /\ UNCHANGED <<out, optVars, defVars, fmtVars, valVars>>

\* o.schema() on a loaded object
Schema ==
    /\ \E o \in Objs :
          /\ status[o] = "loaded"
          /\ out' = [kind |-> "schema", of |-> o, res |-> SchemaOut(Self(o))]
    /\ UNCHANGED <<meta, types, derived, schema_types, status, loads,
                   optVars, defVars, fmtVars, valVars>>

\* o.loads(s) for the s that schema() returned
LoadOut ==
    /\ out.kind = "schema" /\ out.res.ok
    /\ \E o \in Objs : Loads(o, out.res.val)
    /\ UNCHANGED <<out, optVars, defVars, fmtVars, valVars>>

\* self.simplify(): the schema given is self.schema()
SimplifyAll(self) ==
    Then(SchemaOut(self),
         LAMBDA s : Simplify(s.types, TRUE, TRUE, TRUE, TRUE,
                             self.meta.config.values["Sys"]))

\* o.simplify() on a loaded object, every pass enabled
SimplifySelf ==
    /\ \E o \in Objs :
          /\ status[o] = "loaded"
          /\ out' = [kind |-> "simplified", of |-> o, res |-> SimplifyAll(Self(o))]
    /\ UNCHANGED <<meta, types, derived, schema_types, status, loads,
                   optVars, defVars, fmtVars, valVars>>

\* o.simplify(s) for the s that o.simplify() returned
SimplifyOut ==
    /\ out.kind = "simplified" /\ out.res.ok
    /\ out' = [kind |-> "simplified twice", of |-> out.of, first |-> out.res.val,
               res |-> Simplify(out.res.val, TRUE, TRUE, TRUE, TRUE,
                                meta[out.of].config.values["Sys"])]
    /\ UNCHANGED <<meta, types, derived, schema_types, status, loads,
                   optVars, defVars, fmtVars, valVars>>

\* the end of Schema.validate, after no exported type accepted the instance
ValidateGeneric(self, silent) ==
    IF silent
    THEN Out(Ret(RErr(Err("ValidationError",
                          "instance not valid as under the current schema"))), self)
    ELSE Out(Raise(Err("ValidationError",
                       "instance not valid as under the current schema")), self)

RECURSIVE ValidateFrom(_, _, _, _)
\* one round of the loop of Schema.validate: r is what validate_as(inst, exp)
\* gave for the first of the exports exps
ValidateNext(r, inst, exps, silent) ==
    IF ~r.res.ok THEN r
    ELSE IF Falsy(r.res.val) THEN Out(Ret(RNone), r.self)
    ELSE ValidateFrom(r.self, inst, Tail(exps), silent)

\* the loop of Schema.validate over the exports still to try
ValidateFrom(self, inst, exps, silent) ==
    IF exps = <<>> THEN ValidateGeneric(self, silent)
    ELSE ValidateNext(validate_as(self, inst, Head(exps), TRUE), inst, exps, silent)

\* Schema.validate(inst, silent)
validate(self, inst, silent) ==
    IF "exports" \notin DOMAIN self.meta.data
    THEN Out(NoAttribute("'Meta' object has no attribute 'exports'"), self)
    ELSE ValidateFrom(self, inst, self.meta.data["exports"], silent)

---------------------------------------------------------------------------
(* Runs of the validation (SpecValidate): the Schema object A has loaded a   *)
(* schema that loads; two threads call A.validate_as, each call in two      *)
(* steps, the call with its arguments and the run of the body, so that the  *)
(* calls of the two threads overlap in every order.                         *)

Threads == {"t1", "t2"}

MetaExports == [module |-> S("m4"), exports |-> <<S("T1"), S("Color")>>]
ColorType ==
    RawType("Color", "Enumerated", <<>>, <<RawEnumField(1, "r"), RawEnumField(2, "g")>>)
ColorById ==
    RawType("Color", "Enumerated", <<<<"=">>>>,
            <<RawEnumField(1, "r"), RawEnumField(2, "g")>>)
XandC == <<RawField(1, "x", "Integer", <<>>), RawField(2, "y", "Color", <<Tok("[", 0)>>)>>

\* one schema for each class of Definition: T1 is of the class, Color is an
\* Enumerated it refers to, by value or by id
KindTypes ==
    {RawType("T1", "Record", <<>>, XandC),
     RawType("T1", "Map", <<>>, XandC),
     RawType("T1", "Choice", <<>>, XandC),
     RawType("T1", "Array", <<>>, XandC),
     RawPlain("T1", "ArrayOf", <<<<"*", "Color">>, <<"q">>>>),
     RawPlain("T1", "ArrayOf", <<<<"*", "String">>, Tok("}", 1)>>),
     RawPlain("T1", "MapOf", <<<<"+", "Color">>, <<"*", "Color">>>>),
     RawPlain("T1", "MapOf", <<<<"+", "$", "Color">>, <<"*", "Color">>>>),
     RawPlain("T1", "String", <<Tok("{", 1), Tok("}", 1)>>),
     RawPlain("T1", "Integer", <<Tok("{", 1)>>)}
KindSchemas ==
    {[meta |-> MetaExports, types |-> <<t, ColorType>>] : t \in KindTypes}
        \cup {[meta |-> MetaExports,
                types |-> <<RawType("T1", "Choice", <<>>, XandC), ColorById>>]}

\* the instances validated
Instances ==
    {IntV(1), StrV(<<"r">>), StrV(<<"a", "b">>),
     ListV(<<StrV(<<"r">>), StrV(<<"r">>)>>),
     DictV(<<>>), DictV(<< <<S("x"), IntV(1)>> >>), DictV(<< <<S("y"), StrV(<<"r">>)>> >>),
     DictV(<< <<S("z"), IntV(1)>> >>), DictV(<< <<S("r"), StrV(<<"r">>)>> >>)}

\* the type names validated as: two exports and a name that is not exported
AsTypes == {S("T1"), S("Color"), S("Other")}

\* A after A.loads(raw), for a load that ended as r without raising
Loaded(r) ==
    /\ r.res.ok
    /\ meta = [o \in Objs |-> IF o = "A" THEN r.self.meta ELSE NewSchema.meta]
    /\ types = [o \in Objs |-> IF o = "A" THEN r.self.types ELSE NewSchema.types]
    /\ derived = [o \in Objs |-> IF o = "A" THEN r.self.derived ELSE NewSchema.derived]
    /\ schema_types = r.schema_types
    /\ status = [o \in Objs |-> IF o = "A" THEN "loaded" ELSE "new"]
    /\ vLoaded = [self |-> r.self, schema_types |-> r.schema_types]

ValInit ==
    /\ \E raw \in KindSchemas : Loaded(setSchema(NewSchema, JadnTypeNames, raw))
    /\ loads = 1
    /\ out = [kind |-> "none"]
    /\ vPc = [t \in Threads |-> "idle"]
    /\ vIn = [t \in Threads |-> <<>>]
    /\ vRes = [t \in Threads |-> <<>>]
    /\ vCalls = 0

\* a thread calls A.validate_as(inst, type, silent)
ValidateCall ==
    /\ vCalls < MaxCalls
    /\ \E t \in Threads, inst \in Instances, type \in AsTypes, silent \in BOOLEAN :
          /\ vPc[t] \in {"idle", "done"}
          /\ vPc' = [vPc EXCEPT ![t] = "called"]
          /\ vIn' = [vIn EXCEPT ![t] = [inst |-> inst, type |-> type,
                                        silent |-> silent]]
          /\ vRes' = [vRes EXCEPT ![t] = <<>>]
    /\ vCalls' = vCalls + 1
    /\ UNCHANGED <<vLoaded, schVars, optVars, defVars, fmtVars>>

\* what a validate_as call that ended as r leaves behind
Validated(t, r) ==
    /\ meta' = [meta EXCEPT !["A"] = r.self.meta]
    /\ types' = [types EXCEPT !["A"] = r.self.types]
    /\ derived' = [derived EXCEPT !["A"] = r.self.derived]
    /\ vRes' = [vRes EXCEPT ![t] = r.res]
    /\ vPc' = [vPc EXCEPT ![t] = "done"]

\* the body of the call runs to its return or its raise
ValidateRun ==
    /\ \E t \in Threads :
          /\ vPc[t] = "called"
          /\ Validated(t, validate_as(Self("A"), vIn[t].inst, vIn[t].type,
                                      vIn[t].silent))
    /\ UNCHANGED <<vIn, vCalls, vLoaded, schema_types, status, loads, out,
                   optVars, defVars, fmtVars>>

\* a thread calls A.validate(inst, silent)
ValidateTopCall ==
    /\ vCalls < MaxCalls
    /\ \E t \in Threads, inst \in Instances, silent \in BOOLEAN :
          /\ vPc[t] \in {"idle", "done"}
          /\ vPc' = [vPc EXCEPT ![t] = "called"]
          /\ vIn' = [vIn EXCEPT ![t] = [inst |-> inst, type |-> <<>>,
                                        silent |-> silent]]
          /\ vRes' = [vRes EXCEPT ![t] = <<>>]
    /\ vCalls' = vCalls + 1
    /\ UNCHANGED <<vLoaded, schVars, optVars, defVars, fmtVars>>

\* the body of validate runs to its return or its raise
ValidateTopRun ==
    /\ \E t \in Threads :
          /\ vPc[t] = "called"
          /\ Validated(t, validate(Self("A"), vIn[t].inst, vIn[t].silent))
    /\ UNCHANGED <<vIn, vCalls, vLoaded, schema_types, status, loads, out,
                   optVars, defVars, fmtVars>>

---------------------------------------------------------------------------
(* Analysis of a schema: Schema.analyze, Schema.dependencies and           *)
(* DefinitionBase.dependencies.  The lists analyze returns are built from   *)
(* sets and are modelled as sets.                                            *)

\* optionDeps of DefinitionBase.dependencies: the ktype and vtype that are set
\* and are not builtin
OptionDeps(o) ==
    {o[k] : k \in {x \in {"ktype", "vtype"} \cap DOMAIN o :
                      o[x] # <<>> /\ ~IsBuiltin(o[x])}}

\* the contribution of one field to DefinitionBase.dependencies
FieldDeps(d, field) ==
    IF field.type \in {S("ArrayOf"), S("MapOf")} THEN OptionDeps(field.options)
    ELSE IF ~IsBuiltin(field.type) /\ field.type # d.name THEN {field.type}
    ELSE {}

\* DefinitionBase.dependencies
Dependencies(d) ==
    (IF Basetype(d.type) \in {S("ArrayOf"), S("MapOf")}
     THEN OptionDeps(d.options) ELSE {})
    \cup (IF IsCompound(Basetype(d.type)) /\ Basetype(d.type) # S("Enumerated")
          THEN UNION {FieldDeps(d, d.fields[i]) : i \in 1..Len(d.fields)}
          ELSE {})

\* self.meta.get(attr, default)
MetaGet(self, attr, default) ==
    IF attr \in DOMAIN self.meta.data THEN self.meta.data[attr] ELSE default

NsKeep(name, nsids) == name
\* ns of Schema.dependencies: name.split(":")[0] when it is an import alias,
\* the full name otherwise
Ns(name, nsids) ==
    LET colons == {i \in 1..Len(name) : name[i] = ":"}
        nsp == IF colons = {} THEN name
               ELSE SubSeq(name, 1, (CHOOSE i \in colons : \A j \in colons : i <= j) - 1)
    IN  IF nsp \in nsids THEN nsp ELSE name

\* Schema.dependencies: name -> set of names, for the import aliases and the
\* types
SchemaDependencies(self) ==
    LET nsids == DOMAIN MetaGet(self, "imports", <<>>)
    IN  [n \in nsids \cup NamesOf(self.types) |->
            IF n \in NamesOf(self.types)
            THEN {Ns(dep, nsids) : dep \in Dependencies(TypesGet(self.types, n).val)}
            ELSE {}]

\* Schema.analyze from type_deps on
AnalyzeDeps(self, type_deps) ==
    LET refs == UNION {type_deps[tn] : tn \in DOMAIN type_deps}
                   \cup SeqToSet(MetaGet(self, "exports", <<>>))
        tys == (DOMAIN type_deps) \cup DOMAIN self.derived
    IN  [module |-> MetaGet(self, "module", <<>>) \o MetaGet(self, "patch", <<>>),
         exports |-> MetaGet(self, "exports", <<>>),
         unreferenced |-> (tys \ refs) \ DOMAIN self.derived,
         undefined |-> refs \ tys]

\* Schema.analyze
analyze(self) == AnalyzeDeps(self, SchemaDependencies(self))

---------------------------------------------------------------------------
(* Runs of <definition>.validate on a drawn Definition and a drawn instance *)
(* (SpecTypes).  The Definition is made by make_definition with the config  *)
(* of a loaded schema that holds the Enumerated Color; it is not verified,  *)
(* so its bounds may stand in any order.                                     *)

TypSchema ==
    [meta |-> MetaExports, types |-> <<RawPlain("T1", "Integer", <<>>), ColorType>>]

\* the option tokens drawn for a Custom type: minv and maxv, each absent or
\* one of the drawn integers
BoundTokens ==
    {lo \o hi : lo \in {<<>>} \cup {<<Tok("{", n)>> : n \in OptIntVals},
                hi \in {<<>>} \cup {<<Tok("}", n)>> : n \in OptIntVals}}

TypRaws ==
    {RawPlain("T2", ty, o) : ty \in {"Integer", "Number", "String", "Binary"},
                             o \in BoundTokens}
    \cup {RawType("T2", ty, <<>>, fs) :
             ty \in {"Record", "Map", "Choice"},
             fs \in {XandC, <<RawField(1, "x", "Integer", <<>>)>>}}

TypInstances ==
    {IntV(n) : n \in (0 - 1)..(MaxCard + 1)}
    \cup {StrV([i \in 1..n |-> "a"]) : n \in 0..(MaxCard + 1)}
    \cup {DictV(<<>>), DictV(<< <<S("x"), IntV(1)>> >>),
          DictV(<< <<S("y"), StrV(<<"r">>)>> >>), DictV(<< <<S("z"), IntV(1)>> >>),
          DictV(<< <<S("x"), IntV(1)>>, <<S("z"), IntV(1)>> >>),
          DictV(<< <<S("y"), StrV(<<"r">>)>>, <<S("x"), IntV(1)>> >>)}

TypInit ==
    /\ Loaded(setSchema(NewSchema, JadnTypeNames, TypSchema))
    /\ loads = 1
    /\ out = [kind |-> "none"]
    /\ vPc = "start"
    /\ vIn \in {[def |-> MakeDefinition(raw).val, inst |-> inst] :
                    raw \in TypRaws, inst \in TypInstances}
    /\ vRes = <<>>
    /\ vCalls = 0

\* what a validate call that ended as r leaves behind
TypValidated(r) ==
    /\ meta' = [meta EXCEPT !["A"] = r.self.meta]
    /\ types' = [types EXCEPT !["A"] = r.self.types]
    /\ derived' = [derived EXCEPT !["A"] = r.self.derived]
    /\ vRes' = r.res
    /\ vPc' = "done"

\* d.validate(inst)
DefinitionValidate ==
    /\ vPc = "start"
    /\ TypValidated(DefValidate(vIn.def, vIn.inst, Self("A")))
    /\ UNCHANGED <<vIn, vCalls, vLoaded, schema_types, status, loads, out,
                   optVars, defVars, fmtVars>>

---------------------------------------------------------------------------
(* Runs of analyze on a loaded schema (SpecAnalyze).  T1 is exported; its   *)
(* field refers to a builtin, to the undeclared Y, to Z, to Y of the         *)
(* namespace ns, or to T1 itself; Z, W (which refers to Z), the ArrayOf L    *)
(* (of Y) and the MapOf M (keyed by the enumeration derived from Z) are      *)
(* declared or not; the namespace ns is imported or not.                     *)

AnaMetas ==
    {MetaPlain,
     [module |-> S("m5"), exports |-> <<S("T1")>>, imports |-> (S("ns") :> S("uri"))]}

AnaRoots ==
    {RawType("T1", "Record", <<>>, <<[id |-> 1, name |-> S("x"), type |-> ft,
                                     options |-> <<>>, description |-> <<>>]>>) :
        ft \in {S("Integer"), S("Y"), S("Z"), <<"ns", ":", "Y">>, S("T1")}}

AnaExtras ==
    <<RawType("Z", "Record", <<>>, <<RawField(1, "port", "Integer", <<>>)>>),
      RawType("W", "Record", <<>>, <<RawField(1, "x", "Z", <<>>)>>),
      RawPlain("L", "ArrayOf", <<<<"*", "Y">>>>),
      RawPlain("M", "MapOf", <<<<"+", "$", "Z">>, <<"*", "String">>>>)>>

AnaSchemas ==
    {[meta |-> m,
      types |-> <<r>> \o SelectSeq(AnaExtras, LAMBDA e : e.name \in pick)] :
        m \in AnaMetas, r \in AnaRoots, pick \in SUBSET NamesOf(AnaExtras)}

AnaInit ==
    /\ \E raw \in AnaSchemas : Loaded(setSchema(NewSchema, JadnTypeNames, raw))
    /\ loads = 1
    /\ out = [kind |-> "none"]
    /\ vPc = "start"
    /\ vIn = <<>>
    /\ vRes = <<>>
    /\ vCalls = 0

\* A.analyze()
Analyze ==
    /\ vPc = "start"
    /\ vRes' = analyze(Self("A"))
    /\ vPc' = "done"
    /\ UNCHANGED <<vIn, vCalls, vLoaded, schVars, optVars, defVars, fmtVars>>

---------------------------------------------------------------------------
(* Reads of <definition>.dependencies (SpecDeps): the Definition D is drawn, *)
(* of every kind, its fields and its ktype/vtype naming a builtin type, D    *)
(* itself or another type.  vIn is the Definition, vRes the set returned.    *)

\* the fields of D: a type name, or an ArrayOf/MapOf with a vtype option
DepFields ==
    {RawField(1, "x", ft, <<>>) : ft \in {"Integer", "D", "Y", "Z"}}
    \cup {RawField(1, "x", ft, <<<<"*">> \o vt>>) :
             ft \in {"ArrayOf", "MapOf"}, vt \in {S("String"), S("D"), S("Y")}}

DepFieldSeqs ==
    {<<f>> : f \in DepFields}
    \cup {<<f, [g EXCEPT !.id = 2, !.name = S("y")]>> : f \in DepFields, g \in DepFields}

DepRaws ==
    {RawType("D", kind, <<>>, fs) :
        kind \in {"Record", "Map", "Choice", "Array"}, fs \in DepFieldSeqs}
    \cup {RawPlain("D", "ArrayOf", <<<<"*">> \o vt>>) :
             vt \in {S("String"), S("D"), S("Y")}}
    \cup {RawPlain("D", "MapOf", <<<<"+">> \o kt, <<"*">> \o vt>>) :
             kt \in {S("String"), S("D"), S("Y")}, vt \in {S("String"), S("D"), S("Z")}}
    \cup {RawType("D", "Enumerated", <<>>, <<RawEnumField(1, "r")>>),
          RawPlain("D", "String", <<>>), RawPlain("D", "Y", <<>>)}

DepInit ==
    /\ vPc = "start"
    /\ vIn \in {MakeDefinition(raw).val : raw \in {r \in DepRaws : MakeDefinition(r).ok}}
    /\ vRes = {}
    /\ vCalls = 0
    /\ vLoaded = <<>>

\* D.dependencies
ReadDependencies ==
    /\ vPc = "start"
    /\ vRes' = Dependencies(vIn)
    /\ vPc' = "done"
    /\ UNCHANGED <<vIn, vCalls, vLoaded, schVars, optVars, defVars, fmtVars>>

---------------------------------------------------------------------------
(* Loads of drawn schemas in a fresh process (SpecKeyword): T1 is a Record   *)
(* with one field, T2 and T3 are types whose keyword is a builtin name, the  *)
(* name of a declared type, or a name nothing declares; Color is declared    *)
(* or not.  Schemas whose fields carry multiplicities and type options, a   *)
(* derived enumeration and a MapOf keyed by one are loaded as well.  vRes   *)
(* is the outcome of the load and the names verify_schema found undefined.  *)

KwFieldTypes == {S("Integer"), S("Color"), S("Foo")}
KwKeywords == {S("String"), S("T1"), S("Color"), S("Foo"), S("Bar")}

KwSchemas ==
    {[meta |-> MetaPlain,
      types |-> <<RawType("T1", "Record", <<>>,
                          <<[id |-> 1, name |-> S("x"), type |-> ft,
                             options |-> <<>>, description |-> <<>>]>>),
                  [name |-> S("T2"), type |-> kw, options |-> <<>>,
                   description |-> <<>>]>>
                \o more \o color] :
        ft \in KwFieldTypes, kw \in KwKeywords,
        more \in {<<>>} \cup {<<[name |-> S("T3"), type |-> k3, options |-> <<>>,
                                  description |-> <<>>]>> : k3 \in {S("T2"), S("Foo")}},
        color \in {<<>>, <<ColorType>>}}

\* the options of the field x of T1: every multiplicity, a type option, both
SimpFieldOpts ==
    CardTokens \cup {<<Tok("{", 1)>>, <<Tok("{", 1), Tok("]", 2)>>}

\* a second Record whose field has the name of the field of T1
SimpMore ==
    {<<>>} \cup
    {<<RawType("T2", "Record", <<>>, <<RawField(1, "x", ft, o)>>)>> :
        ft \in {"Integer", "String"}, o \in {<<Tok("{", 2)>>, <<Tok("]", 2)>>}}

SimpSchemas ==
    {[meta |-> MetaPlain,
      types |-> <<RawType("T1", "Record", <<>>, <<RawField(1, "x", "Integer", o)>>)>>
                \o more] : o \in SimpFieldOpts, more \in SimpMore}

\* the schemas loaded: those above, those with multiplicities and type
\* options on fields, a derived enumeration, a MapOf keyed by one
LoadSchemas == KwSchemas \cup SimpSchemas \cup {EnumSchema, MapOfSchema}

KwInit ==
    /\ SchInit
    /\ vPc = "start"
    /\ vIn \in LoadSchemas
    /\ vRes = <<>>
    /\ vCalls = 0
    /\ vLoaded = <<>>

\* what A.loads(vIn) that ended as r leaves behind
KwLoaded(r) ==
    /\ Install("A", r)
    /\ vRes' = [res |-> r.res,
                reported |-> TypeNotDefined(r.self.types, r.schema_types)]

\* A.loads(vIn)
LoadDrawn ==
    /\ vPc = "start"
    /\ KwLoaded(setSchema(Self("A"), schema_types, vIn))
    /\ loads' = loads + 1
    /\ vPc' = "done"
    /\ UNCHANGED <<out, vIn, vCalls, vLoaded, optVars, defVars, fmtVars>>

---------------------------------------------------------------------------
(* Calls of simplify on a loaded Schema (SpecSimplify): A is loaded, and     *)
(* A.simplify(schema, anon, multi, derived, map_of, simple) is called with   *)
(* drawn arguments, schema being None or a schema in list form.  With        *)
(* simple=False the call returns a Schema built from the result: the object  *)
(* B.  vRes is what the call returned or raised.                             *)

\* the arguments of a call: no key schema when the schema given is None
SimpArgs ==
    {f @@ s : f \in [anon : BOOLEAN, multi : BOOLEAN, deriv : BOOLEAN,
                      map_of : BOOLEAN, simple : BOOLEAN],
              s \in {<<>>} \cup {[schema |-> x] : x \in SimpSchemas}}

SimpInit ==
    /\ \E raw \in {RefSchema, EnumSchema, MapOfSchema} :
          Loaded(setSchema(NewSchema, JadnTypeNames, raw))
    /\ loads = 1
    /\ out = [kind |-> "none"]
    /\ vPc = "start"
    /\ vIn \in SimpArgs
    /\ vRes = <<>>
    /\ vCalls = 0

\* the schema simplify works on: the one given, else self.schema()
SimplifySource(self, args) ==
    IF "schema" \in DOMAIN args THEN Ret(args.schema) ELSE SchemaOut(self)

\* the passes of simplify on the source s, an outcome: simple_schema
SimplifyPasses(self, args, s) ==
    IF ~s.ok THEN s
    ELSE LET ts == Simplify(s.val.types, args.anon, args.multi, args.deriv,
                            args.map_of, self.meta.config.values["Sys"])
         IN  IF ts.ok THEN Ret([meta |-> s.val.meta, types |-> ts.val]) ELSE ts

\* the object that Schema(simple_schema) constructs for a call on o
SimplifySame(o) == o
SimplifyNew(o) == CHOOSE b \in Objs : b # o

\* return Schema(simple_schema): the constructor ended as r
SimplifyConstructed(o, r) ==
    /\ Install(SimplifyNew(o), r)
    /\ vRes' = IF r.res.ok THEN Ret([object |-> SimplifyNew(o)]) ELSE r.res

\* the return of simplify, simple_schema being the outcome s
SimplifyReturn(o, args, s) ==
    IF s.ok /\ ~args.simple
    THEN SimplifyConstructed(o, setSchema(NewSchema, schema_types, s.val))
    ELSE /\ vRes' = s
         /\ UNCHANGED <<meta, types, derived, schema_types, status>>

\* A.simplify(schema, anon, multi, derived, map_of, simple)
SimplifyCall ==
    /\ vPc = "start"
    /\ SimplifyReturn("A", vIn,
                      SimplifyPasses(Self("A"), vIn, SimplifySource(Self("A"), vIn)))
    /\ vPc' = "done"
    /\ UNCHANGED <<loads, out, vIn, vCalls, vLoaded, optVars, defVars, fmtVars>>

---------------------------------------------------------------------------
(* The format registry (SpecFormats): Schema._formats is the dict            *)
(* ValidationFormats of the formats package, one dict for every Schema       *)
(* object of the process.  A validator is named by an identifier.  fmtCalls  *)
(* is the history of the addFormat calls: the arguments, whether the call    *)
(* raised, and the registry after it.                                        *)

\* the registry as the formats package builds it: of the default set, the
\* key email
ValidationFormats == [email |-> "general.email"]

FormatKeys == {"email", "color", "shape"}
FormatFuns == {"f1", "f2"}

FormatNeverRefused(reg, fmt, override) == FALSE

\* fmt in self.formats and not override
FormatRefused(reg, fmt, override) == fmt \in DOMAIN reg /\ ~override

\* Schema.addFormat(fmt, fun, override): the registry afterwards and the
\* outcome of the call
addFormat(reg, fmt, fun, override) ==
    IF FormatRefused(reg, fmt, override)
    THEN [formats |-> reg,
          res |-> Raise(Err("FormatError", "format is already defined"))]
    ELSE [formats |-> Put(reg, fmt, fun), res |-> Ret(NoneV)]

FmtInit ==
    /\ formats = ValidationFormats
    /\ fmtCalls = <<>>

\* what an addFormat call that ended as r leaves behind
Added(o, fmt, fun, override, r) ==
    /\ formats' = r.formats
    /\ fmtCalls' = Append(fmtCalls, [by |-> o, fmt |-> fmt, fun |-> fun,
                                     override |-> override, res |-> r.res,
                                     after |-> r.formats])

\* some Schema object is called with addFormat(fmt, fun, override)
AddFormat ==
    /\ Len(fmtCalls) < MaxAdds
    /\ \E o \in Objs, fmt \in FormatKeys, fun \in FormatFuns, override \in BOOLEAN :
          Added(o, fmt, fun, override, addFormat(formats, fmt, fun, override))
    /\ UNCHANGED <<optVars, defVars, schVars, valVars>>

\* the format values verified between addFormat calls: the keys handed to
\* addFormat and one u<digits> value
FormatValues == {S(k) : k \in FormatKeys} \cup {<<"u", "8">>}

\* Options({"format": fmt}).verify("String", silent=True), called on the
\* options of a type while the registry stands as it is
FormatVerify ==
    /\ \E fmt \in FormatValues :
          /\ optIn' = OptionsFromDict([format |-> fmt])
          /\ optErrs' = VerifyErrors(OptionsFromDict([format |-> fmt]), S("String"), FALSE)
    /\ optBase' = S("String")
    /\ optPc' = "verified"
    /\ UNCHANGED <<optField, optTokens, optOut, defVars, schVars, fmtVars, valVars>>

---------------------------------------------------------------------------
(* Specifications *)

SchIdle ==
    /\ meta = <<>> /\ types = <<>> /\ derived = <<>> /\ schema_types = {}
    /\ status = <<>> /\ loads = 0 /\ out = <<>>
FmtIdle == formats = <<>> /\ fmtCalls = <<>>
ValIdle == vPc = <<>> /\ vIn = <<>> /\ vRes = <<>> /\ vCalls = 0 /\ vLoaded = <<>>

InitOptions == OptInit /\ DefIdle /\ SchIdle /\ FmtIdle /\ ValIdle
NextOptions == OptVerify \/ OptEncode \/ OptDecode
SpecOptions == InitOptions /\ [][NextOptions]_vars

InitDecode == DecInit /\ DefIdle /\ SchIdle /\ FmtIdle /\ ValIdle
NextDecode == OptDecodeDrawn
SpecDecode == InitDecode /\ [][NextDecode]_vars

InitRegistry == OptIdle /\ DefIdle /\ SchIdle /\ FmtInit /\ ValIdle
NextRegistry == AddFormat \/ FormatVerify
SpecRegistry == InitRegistry /\ [][NextRegistry]_vars

InitValidateTop == ValInit /\ OptIdle /\ DefIdle /\ FmtIdle
NextValidateTop == ValidateTopCall \/ ValidateTopRun
SpecValidateTop == InitValidateTop /\ [][NextValidateTop]_vars

InitTypes == TypInit /\ OptIdle /\ DefIdle /\ FmtIdle
NextTypes == DefinitionValidate
SpecTypes == InitTypes /\ [][NextTypes]_vars

InitAnalyze == AnaInit /\ OptIdle /\ DefIdle /\ FmtIdle
NextAnalyze == Analyze
SpecAnalyze == InitAnalyze /\ [][NextAnalyze]_vars

InitKeyword == KwInit /\ OptIdle /\ DefIdle /\ FmtIdle
NextKeyword == LoadDrawn
SpecKeyword == InitKeyword /\ [][NextKeyword]_vars

InitSimplify == SimpInit /\ OptIdle /\ DefIdle /\ FmtIdle
NextSimplify == SimplifyCall
SpecSimplify == InitSimplify /\ [][NextSimplify]_vars

InitDeps == DepInit /\ OptIdle /\ DefIdle /\ SchIdle /\ FmtIdle
NextDeps == ReadDependencies
SpecDeps == InitDeps /\ [][NextDeps]_vars

InitVerify == DefInit /\ OptIdle /\ SchIdle /\ FmtIdle /\ ValIdle
NextVerify == DefVerifySilent \/ DefVerifyRaise
SpecVerify == InitVerify /\ [][NextVerify]_vars

Init == SchInit /\ OptIdle /\ DefIdle /\ FmtIdle /\ ValIdle
Next == Load \/ Schema \/ LoadOut \/ SimplifySelf \/ SimplifyOut
Spec == Init /\ [][Next]_vars

InitValidate == ValInit /\ OptIdle /\ DefIdle /\ FmtIdle
NextValidate == ValidateCall \/ ValidateRun
SpecValidate == InitValidate /\ [][NextValidate]_vars

InitFormats == FmtInit /\ OptIdle /\ DefIdle /\ SchIdle /\ ValIdle
NextFormats == AddFormat
SpecFormats == InitFormats /\ [][NextFormats]_vars

---------------------------------------------------------------------------
(* Claims about the Schema container (Spec) *)

\* C1: a load call that fails (building Meta or a Definition raises, the
\* multiplicity pass raises, or the verification at the end raises) leaves
\* the meta and the types of the object as they were before the call, so the
\* object never holds the rejected schema, wholly or in part.
C1_FailedLoadLeavesObject ==
    [][\A o \in Objs, raw \in Catalogue :
          (Loads(o, raw) /\ ~setSchema(Self(o), schema_types, raw).res.ok)
              => (meta'[o] = meta[o] /\ types'[o] = types[o])]_vars

\* the field types of the definitions an object holds
FieldTypesOf(ts) == UNION {Fieldtypes(ts[i]) : i \in 1..Len(ts)}

\* C2: after any sequence of loads, the schema_types of a loaded Schema
\* object is exactly the builtin type names plus the field types of the
\* schema most recently loaded into that object.
C2_SchemaTypesRecomputed ==
    \A o \in Objs :
        status[o] = "loaded" =>
            schema_types = JadnTypeNames \cup FieldTypesOf(types[o])

\* C5: with every pass enabled, simplify applied to what simplify returned
\* for a loaded schema succeeds and returns the same set of type names.
C5_SimplifyIdempotentOnNames ==
    out.kind = "simplified twice" =>
        out.res.ok /\ NamesOf(out.res.val) = NamesOf(out.first)

\* C6: when A holds a schema that loaded and B is a fresh Schema, loading
\* A.schema() into B succeeds, and B.schema() is then equal to A.schema().
C6_SchemaRoundTrip ==
    [][\A a \in Objs, b \in Objs :
          (/\ a # b /\ status[a] = "loaded" /\ status[b] = "new"
           /\ out.kind = "schema" /\ out.of = a /\ out.res.ok
           /\ out.res = SchemaOut(Self(a))
           /\ Loads(b, out.res.val))
              => (/\ status'[b] = "loaded"
                  /\ SchemaOut(SchemaState(meta'[b], types'[b], derived'[b]))
                        = out.res)]_vars

---------------------------------------------------------------------------
(* Claims about the option codec (SpecOptions) *)

\* C7: option tokens round-trip: for an Options value that passes verify for
\* its basetype, decoding the tokens schema() wrote gives an Options value with
\* the same keys and the same values
C7_OptionRoundTrip ==
    optPc = "decoded" => optOut.ok /\ optOut.val = optIn

OptLo == IF optField THEN "minc" ELSE "minv"
OptHi == IF optField THEN "maxc" ELSE "maxv"
OptReportsMaxLessThanMin ==
    \E i \in 1..Len(optErrs) :
        optErrs[i] = Err("OptionError", "max cannot be less than min")

\* C10: cardinality convention: verify never reports "max cannot be less
\* than min" when the maximum bound is 0; with both bounds present and the
\* maximum not 0 it reports it exactly when maximum < minimum
C10_CardinalityConvention ==
    optPc = "verified" =>
        /\ (OptHi \in DOMAIN optIn /\ optIn[OptHi] = 0)
              => ~OptReportsMaxLessThanMin
        /\ (OptHi \in DOMAIN optIn /\ OptLo \in DOMAIN optIn /\ optIn[OptHi] # 0)
              => (OptReportsMaxLessThanMin <=> optIn[OptHi] < optIn[OptLo])

\* C10 witness: verify has run on options whose maximum is 0 under a minimum
\* of 2 and has reported no cardinality error
C10_Witness ==
    /\ optPc = "verified"
    /\ OptHi \in DOMAIN optIn /\ OptLo \in DOMAIN optIn
    /\ optIn[OptHi] = 0 /\ optIn[OptLo] = 2
    /\ ~OptReportsMaxLessThanMin

OptReports(msg) ==
    \E i \in 1..Len(optErrs) : optErrs[i] = Err("OptionError", msg)
OptReportsAny ==
    \E i \in 1..Len(optErrs) : optErrs[i].cls = "OptionError"

\* C11: required structural options: verify for basetype ArrayOf reports the
\* OptionError "requires options: vtype" whenever vtype is absent, and for
\* basetype MapOf reports the requires-options OptionError whenever ktype or
\* vtype is absent, whatever other options are present
C11_RequiredStructuralOptions ==
    optPc = "verified" =>
        /\ (optBase = S("ArrayOf") /\ "vtype" \notin DOMAIN optIn)
              => OptReports("requires options: vtype")
        /\ (optBase = S("MapOf") /\ {"ktype", "vtype"} \ (DOMAIN optIn) # {})
              => OptReports("requires options: vtype and ktype")

OptExtraKeys ==
    {k \in DOMAIN optIn :
        /\ k \notin ValidOptions(optBase)
        /\ ~(optField /\ k \in {"default", "path", "minc", "maxc", "tfield"})}

\* C12: option allow-list: verify reports the extra-options OptionError
\* exactly when some present key is outside the options of the basetype
\* together with, for a field, the field options (default, path, minc, maxc,
\* tfield); and in type mode every field option present is an error
C12_AllowList ==
    optPc = "verified" =>
        /\ OptReports("Extra options given") <=> OptExtraKeys # {}
        /\ (~optField /\ (DOMAIN optIn) \cap FieldOptKeys # {})
              => OptReports("Extra options given")

---------------------------------------------------------------------------
(* Claims about the option decoder (SpecDecode) *)

DecUnknownTag ==
    \E i \in 1..Len(optTokens.val) :
        Head(optTokens.val[i]) \notin DOMAIN OptIds
DecSameTarget ==
    \E i, j \in 1..Len(optTokens.val) :
        /\ i # j
        /\ Head(optTokens.val[i]) \in DOMAIN OptIds
        /\ Head(optTokens.val[j]) \in DOMAIN OptIds
        /\ OptIds[Head(optTokens.val[i])] = OptIds[Head(optTokens.val[j])]

\* C13: option decoding never silently loses a token: decoding a token list
\* fails with an error whenever some token's first character is not in the tag
\* table or two tokens select the same target field; otherwise every token
\* contributes its option to the result
C13_DecodeLosesNoToken ==
    optPc = "read" =>
        IF DecUnknownTag \/ DecSameTarget
        THEN ~optOut.ok
        ELSE /\ optOut.ok
             /\ \A i \in 1..Len(optTokens.val) :
                    OptIds[Head(optTokens.val[i])] \in DOMAIN optOut.val

---------------------------------------------------------------------------
(* Claims about Definition.verify (SpecVerify) *)

DefBase == Basetype(defIn.type)
DefReports(cls, msg) ==
    \E i \in 1..Len(defErrs.val) :
        defErrs.val[i].cls = cls /\ defErrs.val[i].msg = msg
DefMisplaced == \E i \in 1..Len(defIn.fields) : defIn.fields[i].id # i
DefSameId ==
    \E i, j \in 1..Len(defIn.fields) :
        i # j /\ defIn.fields[i].id = defIn.fields[j].id
DefSameName ==
    \E i, j \in 1..Len(defIn.fields) :
        /\ i # j
        /\ IF DefBase = S("Enumerated")
           THEN defIn.fields[i].value = defIn.fields[j].value
           ELSE defIn.fields[i].name = defIn.fields[j].name

\* C8: ordinal invariant: for an Array or Record, verify reports the
\* positional-tag FormatError exactly when some field at 0-based position i
\* has an id other than i + 1; Choice and Map never get it
C8_OrdinalInvariant ==
    defPc = "silent" =>
        /\ DefBase \in {S("Array"), S("Record")}
              => (DefReports("FormatError", "Item ID") <=> DefMisplaced)
        /\ DefBase \in {S("Choice"), S("Map")}
              => ~DefReports("FormatError", "Item ID")

\* C8 witness: verify has run on a Record whose second field carries id 1 and
\* has reported the positional-tag error
C8_Witness ==
    /\ defPc = "silent"
    /\ DefBase = S("Record")
    /\ Len(defIn.fields) = 2 /\ defIn.fields[2].id = 1
    /\ DefReports("FormatError", "Item ID")

\* C9: uniqueness invariant: for every compound Definition (Array, Choice,
\* Enumerated, Map, Record) verify reports a DuplicateError whenever two fields
\* have the same id, and whenever two fields have the same name (value, for
\* Enumerated) unless the basetype is Array
C9_UniquenessInvariant ==
    defPc = "silent" =>
        /\ DefSameId => DefReports("DuplicateError", "Tag count mismatch")
        /\ (DefSameName /\ DefBase # S("Array"))
              => DefReports("DuplicateError", "Name/Value count mismatch")

\* the list d.verify(schema_types, silent=True) returns for the drawn
\* Definition
DefSilentList == DefVerify(defIn, DefKnownTypes, TRUE).val

\* C15: silent flag: a call of verify with silent=true never raises and
\* returns the list of every violation present; the same call with
\* silent=false raises exactly the first element of that list, and raises
\* nothing when the list is empty
C15_SilentFlag ==
    /\ defPc = "silent" => defErrs.ok
    /\ defPc = "raise" =>
          IF DefSilentList = <<>> THEN defErrs.ok
          ELSE ~defErrs.ok /\ defErrs.err = DefSilentList[1]

---------------------------------------------------------------------------
(* Claims about the validation (SpecValidate) *)

\* C4: validate_as leaves the types map, the derived-type cache and
\* schema_types of the loaded Schema as the load left them, and every call
\* of two overlapping calls returns what the same call returns when it is
\* the only one made on the loaded Schema.
C4_ValidateAsSideEffectFree ==
    /\ Self("A") = vLoaded.self
    /\ schema_types = vLoaded.schema_types
    /\ \A t \in Threads :
          vPc[t] = "done" =>
             vRes[t] = validate_as(vLoaded.self, vIn[t].inst, vIn[t].type,
                                   vIn[t].silent).res

\* both threads have returned, one from a call that reached Field.validate
\* and raised there, the other with a list of errors
C4_Witness ==
    /\ vPc["t1"] = "done" /\ vPc["t2"] = "done"
    /\ ~vRes["t1"].ok /\ vRes["t1"].err.cls = "AttributeError"
    /\ vIn["t1"].inst = DictV(<< <<S("x"), IntV(1)>> >>)
    /\ vRes["t2"].ok /\ vRes["t2"].val.k = "list"
---------------------------------------------------------------------------
(* Claims about the validation by one Definition (SpecTypes) *)

TypBase == Basetype(vIn.def.type)
TypKeys == {vIn.inst.dict[i][1] : i \in 1..Len(vIn.inst.dict)}
\* the keys of the instance that no field of the Definition is named by
Undeclared ==
    {k \in TypKeys : \A i \in 1..Len(vIn.def.fields) : vIn.def.fields[i].name # k}
TypReports(cls, msg) ==
    /\ vRes.ok /\ vRes.val.k = "list"
    /\ \E i \in 1..Len(vRes.val.list) : vRes.val.list[i] = Err(cls, msg)

\* C17: unknown keys: for a Map or Record type, validate of any instance
\* having at least one key that is not a declared field name returns a
\* ValidationError that names each such key
C17_UnknownKeys ==
    (/\ vPc = "done" /\ TypBase \in {S("Map"), S("Record")}
     /\ vIn.inst.k = "dict" /\ Undeclared # {})
    => /\ vRes.ok /\ vRes.val.k = "list"
       /\ \E i \in 1..Len(vRes.val.list) :
             vRes.val.list[i] = [cls |-> "ValidationError", msg |-> "unknown field(s)",
                                 names |-> Undeclared]

\* C17 witness: validate on a Record with the fields x and y has returned the
\* unknown-field error naming z, and only z, for the instance {x: 1, z: 1}
C17_Witness ==
    /\ vPc = "done" /\ TypBase = S("Record") /\ Len(vIn.def.fields) = 2
    /\ vIn.inst = DictV(<< <<S("x"), IntV(1)>>, <<S("z"), IntV(1)>> >>)
    /\ vRes = Ret(RList(<<[cls |-> "ValidationError", msg |-> "unknown field(s)",
                           names |-> {S("z")}]>>))

\* C18: exactly-one-key rule: Choice.validate returns a validation error for
\* every instance whose number of keys is not exactly one (zero keys, or two or
\* more), whatever fields the Choice declares
C18_ExactlyOneKey ==
    (/\ vPc = "done" /\ TypBase = S("Choice")
     /\ vIn.inst.k = "dict" /\ Len(vIn.inst.dict) # 1)
    => TypReports("ValidationError", "invalid value for choice")

\* C18 witness: Choice.validate has returned the error for an instance with
\* the two keys y and x, both of them fields of the Choice, y holding a value
\* its type accepts
C18_Witness ==
    /\ vPc = "done" /\ TypBase = S("Choice") /\ Len(vIn.def.fields) = 2
    /\ vIn.inst = DictV(<< <<S("y"), StrV(<<"r">>)>>, <<S("x"), IntV(1)>> >>)
    /\ TypReports("ValidationError", "invalid value for choice")

TypNumeric == vPc = "done" /\ vIn.def.type \in {S("Integer"), S("Number")}
                  /\ vIn.inst.k = "int"
TypMinv == OptGet(vIn.def.options, "minv", 0)

TypLength == Len(vIn.inst.str)
TypMaxv == OptGet(vIn.def.options, "maxv", 255)

\* C20: length bounds: for a Custom Binary or String type, validate accepts an
\* instance of length L with respect to length exactly when minv <= L and
\* (maxv = 0 or L <= maxv), where maxv is 255 when the option is absent; an
\* explicit maxv of 0 means the length is unbounded
C20_LengthBounds ==
    (/\ vPc = "done" /\ vIn.def.type \in {S("Binary"), S("String")}
     /\ vIn.inst.k = "str")
    => (/\ ~TypReports("ValueError", "minimum length not met")
        /\ ~TypReports("ValueError", "maximum length exceeded"))
          <=> (TypMinv <= TypLength /\ (TypMaxv = 0 \/ TypLength <= TypMaxv))

\* the declared fields with a minimum cardinality of at least one (minc is 1
\* when absent) that the instance has no key for
MissingRequired ==
    {i \in 1..Len(vIn.def.fields) :
        /\ OptGet(vIn.def.fields[i].options, "minc", 1) >= 1
        /\ vIn.def.fields[i].name \notin TypKeys}

\* C23: missing required fields: Record validation, where cardinality is
\* enforced, returns an error for every declared field with minimum
\* cardinality of at least one that is absent from the instance, for any
\* instance whose keys are all declared field names
C23_MissingRequired ==
    (/\ vPc = "done" /\ TypBase = S("Record")
     /\ vIn.inst.k = "dict" /\ Undeclared = {})
    => (MissingRequired # {}
          => /\ vRes.ok => vRes.val.k = "list"
             /\ vRes.ok => Len(vRes.val.list) >= Cardinality(MissingRequired))

---------------------------------------------------------------------------
(* Claims about a load of a drawn schema (SpecKeyword)                       *)

\* the names the schema loaded declares
KwDeclared == {vIn.types[i].name : i \in 1..Len(vIn.types)}

\* the load reached the type-keyword check: it returned, or verify_schema
\* raised the first "Type of <name> not defined" it had collected
KwChecked ==
    /\ vPc = "done"
    /\ vRes.res.ok \/ vRes.res.err = Err("TypeError", "Type not defined")

\* C24: verify_schema reports "Type of <name> not defined" for a declared
\* type if and only if the type keyword of that type is neither a builtin
\* type name nor the name of a type declared in the same schema, whether or
\* not the keyword is used as a field type somewhere.
C24_TypeKeywordCheck ==
    KwChecked =>
        /\ vRes.reported =
              {vIn.types[i].name :
                 i \in {j \in 1..Len(vIn.types) :
                          vIn.types[j].type \notin JadnTypeNames \cup KwDeclared}}
        /\ vRes.res.ok <=> vRes.reported = {}

\* the type of the name n that the load left in A
KwLoadedType(n) == types["A"][CHOOSE i \in 1..Len(types["A"]) : types["A"][i].name = n]

\* the type options among the options o
KwTypeOpts(o) == Restrict(o, DOMAIN o \cap TypeOptKeys)

\* C29: load applies the multiplicity-lifting pass and only that pass: after
\* a successful load no field of a type of Schema.types has a maxc other
\* than 1, while the anonymous type options of the fields, the derived
\* enumerations and the MapOf types keyed by an enumeration are as written.
C29_LoadLiftsMultiplicityOnly ==
    (vPc = "done" /\ vRes.res.ok) =>
        /\ \A i \in 1..Len(types["A"]) :
              (HasFields(types["A"][i]) /\ types["A"][i].type # S("Enumerated")) =>
                 \A j \in 1..Len(types["A"][i].fields) :
                    OptGet(types["A"][i].fields[j].options, "maxc", 1) = 1
        /\ \A i \in 1..Len(vIn.types) :
              IF HasFields(vIn.types[i]) /\ vIn.types[i].type # S("Enumerated")
              THEN \A j \in 1..Len(vIn.types[i].fields) :
                      KwTypeOpts(KwLoadedType(vIn.types[i].name).fields[j].options)
                        = KwTypeOpts(OptionsFromTokens(vIn.types[i].fields[j].options).val)
              ELSE KwLoadedType(vIn.types[i].name) = MakeDefinition(vIn.types[i]).val

---------------------------------------------------------------------------
(* Claims about simplify (SpecSimplify)                                      *)

\* the call returned or raised, the schema was given, and only the passes
\* of the set ps were on
SimpRan(ps) ==
    /\ vPc = "done"
    /\ "schema" \in DOMAIN vIn
    /\ vIn.simple
    /\ \A k \in {"anon", "multi", "deriv", "map_of"} : vIn[k] <=> k \in ps

\* the cardinality bounds a field of the schema given declares, an absent
\* bound being one
SimpCard(f) ==
    [minc |-> OptGet(OptionsFromTokens(f.options).val, "minc", 1),
     maxc |-> OptGet(OptionsFromTokens(f.options).val, "maxc", 1)]

\* g refers to an ArrayOf of the types ts whose vtype is the type of f and
\* whose minv and maxv are the bounds c
SimpLifted(ts, f, g, c) ==
    \E k \in 1..Len(ts) :
        /\ ts[k].name = g.type
        /\ ts[k].type = S("ArrayOf")
        /\ OptGet(OptionsFromTokens(ts[k].options).val, "vtype", <<>>)
              = OptSetAttr("vtype", f.type)
        /\ OptGet(OptionsFromTokens(ts[k].options).val, "minv", -1) = c.minc
        /\ OptGet(OptionsFromTokens(ts[k].options).val, "maxv", -1) = c.maxc

\* C25: after simplify with the multiplicity pass on, every field whose
\* cardinality bounds are not both 1 references a synthesized ArrayOf whose
\* vtype is the original type of the field and whose minv/maxv are the
\* minc/maxc of the field, every field of cardinality exactly one is left
\* unchanged, and the pass completes without error for every combination of
\* present and absent minc/maxc.
C25_MultiplicityLifting ==
    SimpRan({"multi"}) =>
        /\ vRes.ok
        /\ \A ti \in 1..Len(vIn.schema.types) :
              \A fi \in 1..Len(vIn.schema.types[ti].fields) :
                 IF SimpCard(vIn.schema.types[ti].fields[fi]) = [minc |-> 1, maxc |-> 1]
                 THEN vRes.val.types[ti].fields[fi] = vIn.schema.types[ti].fields[fi]
                 ELSE SimpLifted(vRes.val.types, vIn.schema.types[ti].fields[fi],
                                 vRes.val.types[ti].fields[fi],
                                 SimpCard(vIn.schema.types[ti].fields[fi]))

\* C26: in the result of one simplify call no two type entries have the
\* same name: a type synthesized by the anonymous-option, multiplicity or
\* derived-enumeration pass is not appended when a type of that name is
\* already in the schema, also when two fields of different types give rise
\* to the same synthesized name.
C26_SynthesizedNamesUnique ==
    (vPc = "done" /\ vIn.simple /\ vRes.ok) =>
        \A i, j \in 1..Len(vRes.val.types) :
            vRes.val.types[i].name = vRes.val.types[j].name => i = j

---------------------------------------------------------------------------
(* Claims about <definition>.dependencies (SpecDeps)                         *)

\* the names D refers to: the types of its fields when D is a compound kind
\* other than Enumerated, the ktype/vtype of its options when D is an
\* ArrayOf or a MapOf
DepReferenced ==
    (IF vIn.type \in {S("Array"), S("Choice"), S("Map"), S("Record")}
     THEN {vIn.fields[i].type : i \in 1..Len(vIn.fields)} ELSE {})
    \cup (IF vIn.type \in {S("ArrayOf"), S("MapOf")}
          THEN {vIn.options[k] : k \in {"ktype", "vtype"} \cap DOMAIN vIn.options}
          ELSE {})

\* C27: Definition.dependencies never contains the own name of the
\* Definition and never a builtin type name, for every kind, also an
\* ArrayOf/MapOf whose ktype or vtype names the Definition itself; it
\* contains every other type name referenced by the type of a field or by
\* the ktype/vtype options.
C27_DependenciesExcludeSelf ==
    vPc = "done" =>
        /\ vIn.name \notin vRes
        /\ vRes \cap JadnTypeNames = {}
        /\ (DepReferenced \ (JadnTypeNames \cup {vIn.name})) \subseteq vRes

\* C28: simplify does not modify the Schema it is called on: after the call
\* (any combination of the pass toggles, a dict or a new Schema returned) the
\* meta, the types, the derived-type cache and the output of schema() of the
\* receiver are what they were before the call.
C28_SimplifyLeavesReceiver ==
    vPc = "done" =>
        /\ meta["A"] = vLoaded.self.meta
        /\ types["A"] = vLoaded.self.types
        /\ derived["A"] = vLoaded.self.derived
        /\ SchemaOut(Self("A")) = SchemaOut(vLoaded.self)

\* a call on the receiver's own schema, a pass being on, that returned a new
\* Schema with a type the receiver has not
C28_Witness ==
    /\ vPc = "done"
    /\ vRes.ok
    /\ ~vIn.simple
    /\ vIn.deriv \/ vIn.map_of
    /\ "schema" \notin DOMAIN vIn
    /\ status["B"] = "loaded"
    /\ NamesOf(types["B"]) # NamesOf(types["A"])

---------------------------------------------------------------------------
(* Claims about analyze (SpecAnalyze) *)

AnaTypes == vLoaded.self.types
AnaDeclared == {AnaTypes[i].name : i \in 1..Len(AnaTypes)}
AnaAliases ==
    IF "imports" \in DOMAIN vLoaded.self.meta.data
    THEN DOMAIN vLoaded.self.meta.data["imports"] ELSE {}
AnaDerived == DOMAIN vLoaded.self.derived
AnaExports == {vLoaded.self.meta.data["exports"][i] :
                  i \in 1..Len(vLoaded.self.meta.data["exports"])}
\* a namespaced reference ns:Name stands for ns when ns is an import alias
AnaAlias(name) ==
    IF Len(name) >= 2 /\ name[2] = ":" /\ <<name[1]>> \in AnaAliases
    THEN <<name[1]>> ELSE name
\* the names a type refers to: the types of its fields, and the ktype and
\* vtype of an ArrayOf or MapOf, builtin type names apart
AnaRefsOf(d) ==
    {AnaAlias(n) :
       n \in {x \in (IF "fields" \in DOMAIN d /\ d.type # S("Enumerated")
                      THEN {d.fields[i].type : i \in 1..Len(d.fields)} ELSE {})
                    \cup (IF d.type \in {S("ArrayOf"), S("MapOf")}
                          THEN {d.options[k] : k \in {"ktype", "vtype"} \cap DOMAIN d.options}
                          ELSE {}) :
                 x \notin JadnTypeNames}}
AnaReferenced ==
    UNION {AnaRefsOf(AnaTypes[i]) : i \in 1..Len(AnaTypes)} \cup AnaExports

\* C21: analyze().undefined is exactly the set of names that are referenced
\* (as a field type, as a ktype or vtype option, a namespaced reference
\* standing for its import alias, or as an export) and are neither a declared
\* type, an import alias nor a derived type; a schema exporting a type whose
\* field refers to the undeclared Y loads and reports undefined = [Y]
C21_UndefinedExact ==
    vPc = "done" =>
        vRes.undefined = AnaReferenced \ (AnaDeclared \cup AnaAliases \cup AnaDerived)

\* C21 witness: analyze has run on the loaded schema that holds only T1, whose
\* field is of the undeclared type Y, and has reported undefined = {Y}
C21_Witness ==
    /\ vPc = "done"
    /\ AnaDeclared = {S("T1")}
    /\ AnaTypes[1].fields[1].type = S("Y")
    /\ vRes.undefined = {S("Y")}

RECURSIVE AnaReachFrom(_)
\* the names reachable from the names in R by following type references
AnaReachFrom(R) ==
    LET next == R \cup UNION {AnaRefsOf(AnaTypes[i]) :
                                i \in {j \in 1..Len(AnaTypes) : AnaTypes[j].name \in R}}
    IN  IF next = R THEN R ELSE AnaReachFrom(next)

\* C22: analyze().unreferenced is exactly the set of declared or derived type
\* names that are not reachable from any exported type by following type
\* references transitively and that are not import aliases; a type referenced
\* only by types that are unreachable from every export is reported, and an
\* import alias is never reported
C22_UnreferencedExact ==
    vPc = "done" =>
        vRes.unreferenced
           = ((AnaDeclared \cup AnaDerived) \ AnaReachFrom(AnaExports)) \ AnaAliases

---------------------------------------------------------------------------
(* Claims about the top-level validation (SpecValidateTop) *)

Exports == vLoaded.self.meta.data["exports"]
\* some exported type accepts the instance: validate_as returns with no error
AcceptedByExport(inst) ==
    \E i \in 1..Len(Exports) :
        /\ validate_as(vLoaded.self, inst, Exports[i], TRUE).res.ok
        /\ validate_as(vLoaded.self, inst, Exports[i], TRUE).res.val = RNone
GenericError == Err("ValidationError", "instance not valid as under the current schema")

\* C16: top-level validate is a union over exports: validate(instance) reports
\* no error exactly when validate_as(instance, e) reports no error for some
\* exported type e; otherwise it reports exactly one generic ValidationError,
\* returned when silent and raised when not, for every instance and every kind
\* of exported type
C16_ValidateUnionOverExports ==
    \A t \in Threads :
        vPc[t] = "done" =>
            IF AcceptedByExport(vIn[t].inst)
            THEN vRes[t] = Ret(RNone)
            ELSE IF vIn[t].silent
            THEN vRes[t] = Ret(RErr(GenericError))
            ELSE vRes[t] = Raise(GenericError)

---------------------------------------------------------------------------
(* Claims about the format registry (SpecFormats) *)

\* the calls for key that count: the first registration of a key the
\* registry did not ship with, and every call with override
CountingCalls(key) ==
    {i \in 1..Len(fmtCalls) :
        /\ fmtCalls[i].fmt = key
        /\ \/ fmtCalls[i].override
           \/ key \notin DOMAIN ValidationFormats
                 /\ \A j \in 1..(i - 1) : fmtCalls[j].fmt # key}

\* the registry before the i-th call
RegistryBefore(i) == IF i = 1 THEN ValidationFormats ELSE fmtCalls[i - 1].after

\* C3: after any sequence of addFormat calls the function registered under
\* a key is the fun of the last call for the key that was its first
\* registration or had override=true (the shipped function when there is no
\* such call); a call on a registered key with override=false raises
\* FormatError and leaves the registry unchanged, and no other call raises.
C3_WriteOnceUnlessOverride ==
    /\ DOMAIN formats
          = DOMAIN ValidationFormats \cup {fmtCalls[i].fmt : i \in 1..Len(fmtCalls)}
    /\ \A key \in DOMAIN formats :
          formats[key] = IF CountingCalls(key) = {} THEN ValidationFormats[key]
                         ELSE fmtCalls[CHOOSE i \in CountingCalls(key) :
                                          \A j \in CountingCalls(key) : j <= i].fun
    /\ \A i \in 1..Len(fmtCalls) :
          IF fmtCalls[i].fmt \in DOMAIN RegistryBefore(i) /\ ~fmtCalls[i].override
          THEN /\ ~fmtCalls[i].res.ok
               /\ fmtCalls[i].res.err.cls = "FormatError"
               /\ fmtCalls[i].after = RegistryBefore(i)
          ELSE fmtCalls[i].res.ok

\* a key was registered, a second registration of it without override was
\* refused, and a third with override replaced the function
C3_Witness ==
    /\ Len(fmtCalls) >= 3
    /\ fmtCalls[1].fmt = "color" /\ fmtCalls[1].fun = "f1" /\ fmtCalls[1].res.ok
    /\ fmtCalls[2].fmt = "color" /\ fmtCalls[2].fun = "f2" /\ ~fmtCalls[2].res.ok
    /\ fmtCalls[3].fmt = "color" /\ fmtCalls[3].fun = "f2" /\ fmtCalls[3].override
    /\ formats["color"] = "f2"

---------------------------------------------------------------------------
(* Claims about option verification and the format registry (SpecRegistry) *)

FormatRegistered(fmt) ==
    \/ Len(fmt) = 1 /\ fmt[1] \in DOMAIN formats
    \/ Len(fmt) >= 2 /\ Head(fmt) = "u"
          /\ \A i \in 2..Len(fmt) : fmt[i] \in {"0", "1", "2", "3", "4", "5", "6", "7", "8", "9"}

\* C14: option verification follows the format registry: at any point in a
\* sequence of addFormat and verify calls, verify accepts a format value exactly
\* when it is a keyword registered at that point or matches u<digits>
C14_VerifyFollowsRegistry ==
    optPc = "verified" =>
        (~OptReports("specified unknown format") <=> FormatRegistered(optIn["format"]))

=============================================================================
